---- MODULE Spec2Model ----
(***************************************************************************)
(* Klaviyo Flow Builder: the flow graph model, the flow definition         *)
(* validator, the action sequence of the browser builder, the setting      *)
(* resolution of the API flow creator, the retry wrapper, the API build    *)
(* and the build entry points (CLI command, POST /api/build).              *)
(*                                                                         *)
(* Conventions.                                                            *)
(*  - An optional string field (a link, a name, an id) that is undefined,  *)
(*    null or "" is Undefined: the code only ever tests such a field for   *)
(*    truthiness (`a.next &&`, `!id`, `action.next || null`).              *)
(*  - Any other optional value (a boolean, a number, an object) is None    *)
(*    (undefined or null) or Some(v), and Some(v)[1] is v.                 *)
(*  - A reference to an action object is its index in definition.actions,  *)
(*    so two actions with the same content stay two objects.               *)
(***************************************************************************)
EXTENDS Integers, Sequences, FiniteSets, TLC

VARIABLES
    definition,   \* the FlowDefinition handed to the operation under study
    pc,           \* position of the running operation
    pending,      \* getActionSequence: arguments of the traverse calls still to run
    visited,      \* getActionSequence: const visited = new Set<string>()
    ordered,      \* getActionSequence: const ordered: FlowAction[] (as references)
    calls,        \* getActionSequence: number of traverse calls made so far
    validations,  \* the ValidationResult of each validateFlowDefinition call so far
    compiled,     \* transformActions: the KlaviyoAPIAction[] it returned, or its throw
    opts,         \* withRetry: const opts = { ...DEFAULT_RETRY_OPTIONS, ...options }
    attempt,      \* withRetry: the loop variable
    invocations,  \* withRetry: how each call of operation() ended, in order
    slept,        \* withRetry: the argument of each sleep(delay), in order
    lastError,    \* withRetry: let lastError: Error | null
    label,        \* withRetry: the label parameter
    log,          \* withRetry: the lines written to the logger, in order
    outcome,      \* withRetry: how the call ended (a return or a throw), None before
    config,       \* APIFlowCreator: this.config (AppConfig), None outside a build
    account,      \* the Klaviyo account the client talks to: its metrics and lists
    metricIdCache,\* flow-creator.ts: let metricIdCache, as [name, id] in insertion order
    resolved,     \* buildFlow: const trigger, the resolved one (None: not yet, or null)
    templateIds,  \* buildFlow: const preCreatedTemplates (email id -> template id)
    requests,     \* the requests the client has sent, but for the create-flow posts
    result,       \* buildFlow: const result: BuildResult, None outside a build
    entry,        \* the build entry point that runs: the CLI command or the web route
    backends,     \* the buildFlow calls the entry point made, in order, and phase 2
    completion,   \* how the entry point ended: the exit code or the 'complete' event
    added,        \* BrowserFlowBuilder.buildFlow: the addAction calls made, in order
    web,          \* POST /api/build: where each build of the web server stands
    attached,     \* the shared logger: the builds whose SSETransport is added to it
    clients,      \* const sseClients, as the state of each build's connection
    streams       \* what was written to the SSE response of each build, in order

seqVars == <<pending, visited, ordered, calls>>
retryVars == <<opts, attempt, invocations, slept, lastError, label, log, outcome>>
buildVars == <<config, account, metricIdCache, resolved, templateIds, requests, result>>
entryVars == <<entry, backends, completion>>
browserVars == <<added>>
webVars == <<web, attached, clients, streams>>
vars == <<definition, pc, pending, visited, ordered, calls, validations, compiled,
          opts, attempt, invocations, slept, lastError, label, log, outcome,
          config, account, metricIdCache, resolved, templateIds, requests, result,
          entry, backends, completion, added, web, attached, clients, streams>>

(***************************************************************************)
(* Bounds of the model.                                                    *)
(***************************************************************************)
MaxActions == 3
MaxValidations == 2

(***************************************************************************)
(* Values.                                                                 *)
(***************************************************************************)
Undefined == "<undefined>"
None == << >>
Some(v) == <<v>>
Truthy(s) == s # Undefined

Range(s) == {s[i] : i \in DOMAIN s}

\* The variables of an operation that is not running.
SequenceIdle == pending = << >> /\ visited = {} /\ ordered = << >> /\ calls = 0
CompileIdle == compiled = None
BuildIdle ==
    /\ config = None
    /\ account = None
    /\ metricIdCache = << >>
    /\ resolved = None
    /\ templateIds = << >>
    /\ requests = << >>
    /\ result = None
EntryIdle == entry = None /\ backends = << >> /\ completion = None
BrowserIdle == added = << >>
WebIdle ==
    /\ web = << >>
    /\ attached = {}
    /\ clients = << >>
    /\ streams = << >>
RetryIdle ==
    /\ opts = None
    /\ attempt = 0
    /\ invocations = << >>
    /\ slept = << >>
    /\ lastError = None
    /\ label = None
    /\ log = << >>
    /\ outcome = None

(***************************************************************************)
(* types.ts: the action variants.                                          *)
(***************************************************************************)
LinearTypes == {"time-delay", "send-email", "send-sms"}

(***************************************************************************)
(* Flow graphs: the definitions the graph operations are studied on.       *)
(*                                                                         *)
(* A definition has up to MaxActions actions.  Ids are assigned so that    *)
(* every way of sharing ids between the actions occurs (each action takes  *)
(* an id used before it or the next unused name), a link may name any of   *)
(* the names, used or not, or be absent, and so may entry_action_id.  To   *)
(* keep the set small, at most one action of a definition is a split and   *)
(* its linear actions are of one type.                                     *)
(***************************************************************************)
GraphNames == <<"constructor", "a", "b">>
NameCount == Len(GraphNames)

Max(S) == CHOOSE x \in S : \A y \in S : y <= x

\* The ways n actions share ids: f[i] is the rank of action i's id.
IdAssignments(n) ==
    {f \in [1..n -> 1..NameCount] :
        \A i \in 1..n : f[i] <= 1 + Max({0} \cup {f[j] : j \in 1..(i - 1)})}

LinearShapes(type, targets) == [type : {type}, next : targets]

SplitShapes(targets) ==
    [type : {"conditional-split"}, next_if_true : targets, next_if_false : targets]
      \cup [type : {"ab-split"}, next_variant_a : targets, next_variant_b : targets]

\* Sequences of n shapes whose action p (if p > 0) is a split, the others linear.
ShapeSeqs(n, p, type, targets) ==
    {[i \in 1..n |-> IF i = p THEN sp ELSE lin[i]] :
        lin \in [(1..n) \ {p} -> LinearShapes(type, targets)],
        sp \in IF p = 0 THEN {Undefined} ELSE SplitShapes(targets)}

\* The action of the given id and shape, its other fields at fixed values.
MkAction(id, shape) ==
    CASE shape.type = "time-delay" ->
            [id |-> id, type |-> "time-delay", delay_value |-> 1,
             delay_unit |-> "days", next |-> shape.next]
      [] shape.type = "send-email" ->
            [id |-> id, type |-> "send-email", name |-> "Email",
             smart_sending |-> None, utm_tracking |-> None, next |-> shape.next]
      [] shape.type = "send-sms" ->
            [id |-> id, type |-> "send-sms", name |-> "Sms",
             smart_sending |-> None, utm_tracking |-> None, next |-> shape.next]
      [] shape.type = "conditional-split" ->
            [id |-> id, type |-> "conditional-split", condition_type |-> "custom",
             next_if_true |-> shape.next_if_true,
             next_if_false |-> shape.next_if_false]
      [] shape.type = "ab-split" ->
            [id |-> id, type |-> "ab-split",
             next_variant_a |-> shape.next_variant_a,
             next_variant_b |-> shape.next_variant_b]

\* A string the code trims, as its characters.
WelcomeName == <<"W", "e", "l", "c", "o", "m", "e">>
BlankName == <<" ", " ">>

DefaultTrigger ==
    [type |-> "metric", metric_name |-> "Placed Order", metric_id |-> Undefined,
     trigger_filter |-> None]

\* The graph operations look at the links of a linear action, which are the
\* same for each linear type: one type stands for the three.
GraphTypes == {"send-email"}

\* d is a flow graph over the names, its linear actions of one of the types.
IsGraphFlow(d, names, types) ==
    \E n \in 0..MaxActions, t \in types :
      \E p \in 0..n, f \in IdAssignments(n), e \in Range(names) \cup {Undefined} :
        \E s \in ShapeSeqs(n, p, t, Range(names) \cup {Undefined}) :
          d = [name |-> Some(WelcomeName), trigger |-> Some(DefaultTrigger),
               actions |-> [i \in 1..n |-> MkAction(names[f[i]], s[i])],
               entry_action_id |-> e,
               profile_filter |-> None, settings |-> None]


(***************************************************************************)
(* BrowserFlowBuilder.getActionSequence                                    *)
(***************************************************************************)
\* actionMap.get(id) after definition.actions.forEach(a => actionMap.set(a.id, a)):
\* the last action carrying the id, as a reference; 0 when there is none.
ActionMapGet(actions, id) ==
    LET hits == {i \in DOMAIN actions : actions[i].id = id}
    IN  IF hits = {} THEN 0 ELSE CHOOSE i \in hits : \A j \in hits : j <= i

\* Mutant: the second branch of a split is walked before the first.
OutLinksSecondFirst(action) ==
    CASE action.type \in LinearTypes -> <<action.next>>
      [] action.type = "conditional-split" ->
            <<action.next_if_false, action.next_if_true>>
      [] action.type = "ab-split" ->
            <<action.next_variant_b, action.next_variant_a>>
      [] OTHER -> << >>

\* The traverse calls the switch of traverse makes for an action, in order.
OutLinks(action) ==
    CASE action.type \in LinearTypes -> <<action.next>>
      [] action.type = "conditional-split" ->
            <<action.next_if_true, action.next_if_false>>
      [] action.type = "ab-split" ->
            <<action.next_variant_a, action.next_variant_b>>
      [] OTHER -> << >>

\* if (!id || visited.has(id)) return;
AlreadyDone(id, seen) == ~Truthy(id) \/ id \in seen

\* One call traverse(id): the head of pending is its argument; the calls it
\* makes itself run before the calls that were pending behind it.
TraverseCall ==
    /\ pc = "traverse"
    /\ pending # << >>
    /\ LET id == Head(pending)
           ref == ActionMapGet(definition.actions, id)
       IN  IF AlreadyDone(id, visited)
           THEN /\ pending' = Tail(pending)
                /\ UNCHANGED <<visited, ordered>>
           ELSE /\ visited' = visited \cup {id}
                /\ IF ref = 0
                   THEN /\ pending' = Tail(pending)
                        /\ UNCHANGED ordered
                   ELSE /\ ordered' = Append(ordered, ref)
                        /\ pending' = OutLinks(definition.actions[ref]) \o Tail(pending)
    /\ calls' = calls + 1
    /\ UNCHANGED <<definition, pc, validations, compiled, retryVars, buildVars,
            entryVars, browserVars, webVars>>

\* Mutant: the unvisited actions are pushed last to first.
UnvisitedRefsBackwards(actions, seen) ==
    LET kept == SelectSeq([i \in DOMAIN actions |-> i], LAMBDA i : actions[i].id \notin seen)
    IN  [k \in DOMAIN kept |-> kept[Len(kept) + 1 - k]]

\* definition.actions.forEach(a => { if (!visited.has(a.id)) ordered.push(a) })
UnvisitedRefs(actions, seen) ==
    SelectSeq([i \in DOMAIN actions |-> i], LAMBDA i : actions[i].id \notin seen)

AddUnvisited ==
    /\ pc = "traverse"
    /\ pending = << >>
    /\ ordered' = ordered \o UnvisitedRefs(definition.actions, visited)
    /\ pc' = "done"
    /\ UNCHANGED <<definition, pending, visited, calls, validations, compiled,
                   retryVars, buildVars, entryVars, browserVars, webVars>>

InitSequence ==
    /\ IsGraphFlow(definition, GraphNames, GraphTypes)
    /\ pc = "traverse"
    /\ pending = <<definition.entry_action_id>>
    /\ visited = {}
    /\ ordered = << >>
    /\ calls = 0
    /\ validations = << >>
    /\ CompileIdle
    /\ RetryIdle
    /\ BuildIdle
    /\ EntryIdle
    /\ BrowserIdle
    /\ WebIdle

NextSequence == TraverseCall \/ AddUnvisited

SpecSequence == InitSequence /\ [][NextSequence]_vars

(***************************************************************************)
(* validateFlowDefinition (utils/validator).  A message is modelled by its *)
(* template (text) and the values the template interpolates (args, in the  *)
(* order they appear), a string as Str(s) and a number as Num(n); a        *)
(* message contains a value when it is one of them.                        *)
(***************************************************************************)
Msg(text, args) == [text |-> text, args |-> args]
Str(s) == [str |-> s]
Num(n) == [num |-> n]

\* log.info, log.warn, log.error: the level and the line, its template filled in.
LogLine(level, text, args) == [level |-> level, line |-> Msg(text, args)]

\* String.prototype.trim over the characters of a string.
RECURSIVE TrimStart(_)
TrimStart(cs) ==
    IF cs # << >> /\ Head(cs) = " " THEN TrimStart(Tail(cs)) ELSE cs

RECURSIVE TrimEnd(_)
TrimEnd(cs) ==
    IF cs # << >> /\ cs[Len(cs)] = " " THEN TrimEnd(SubSeq(cs, 1, Len(cs) - 1)) ELSE cs

Trim(cs) == TrimEnd(TrimStart(cs))

\* !definition.name || definition.name.trim() === ''
NameMissing(name) == name = None \/ name[1] = << >> \/ Trim(name[1]) = << >>

validateTrigger(d) ==
    LET trigger == d.trigger[1] IN
    CASE trigger.type = "metric" ->
            IF ~Truthy(trigger.metric_name) /\ ~Truthy(trigger.metric_id)
            THEN <<Msg("Metric trigger requires either metric_name or metric_id.", << >>)>>
            ELSE << >>
      [] trigger.type = "list" ->
            IF ~Truthy(trigger.list_name) /\ ~Truthy(trigger.list_id)
            THEN <<Msg("List trigger requires either list_name or list_id.", << >>)>>
            ELSE << >>
      [] trigger.type = "date-property" ->
            IF ~Truthy(trigger.property_name)
            THEN <<Msg("Date trigger requires property_name.", << >>)>>
            ELSE << >>
      [] OTHER -> <<Msg("Unknown trigger type: $.", <<Str(trigger.type)>>)>>

\* One check of validateActionLinks: `if (link && !validIds.has(link)) errors.push(...)`
LinkError(id, fld, link, validIds) ==
    IF Truthy(link) /\ link \notin validIds
    THEN <<Msg("Action $ has $=$ which doesn't exist.", <<Str(id), Str(fld), Str(link)>>)>>
    ELSE << >>

\* Mutant: only the first link of a split is checked.
validateFirstLinkOnly(action, validIds) ==
    CASE action.type \in {"time-delay", "send-email", "send-sms"} ->
            LinkError(action.id, "next", action.next, validIds)
      [] action.type = "conditional-split" ->
            LinkError(action.id, "next_if_true", action.next_if_true, validIds)
      [] action.type = "ab-split" ->
            LinkError(action.id, "next_variant_a", action.next_variant_a, validIds)
      [] OTHER -> << >>

validateActionLinks(action, validIds) ==
    CASE action.type \in {"time-delay", "send-email", "send-sms"} ->
            LinkError(action.id, "next", action.next, validIds)
      [] action.type = "conditional-split" ->
            LinkError(action.id, "next_if_true", action.next_if_true, validIds)
              \o LinkError(action.id, "next_if_false", action.next_if_false, validIds)
      [] action.type = "ab-split" ->
            LinkError(action.id, "next_variant_a", action.next_variant_a, validIds)
              \o LinkError(action.id, "next_variant_b", action.next_variant_b, validIds)
      [] OTHER -> << >>

RECURSIVE AllLinkErrors(_, _, _)
AllLinkErrors(actions, i, validIds) ==
    IF i > Len(actions) THEN << >>
    ELSE validateActionLinks(actions[i], validIds) \o AllLinkErrors(actions, i + 1, validIds)

(***************************************************************************)
(* const idCounts: Record<string, number> = {} is a plain object: reading  *)
(* a key it does not own yet gives what Object.prototype holds under that  *)
(* name.  For such a key `(idCounts[id] || 0) + 1` is that object plus 1,  *)
(* a string, and every later increment appends another "1" to it; the test *)
(* `count > 1` on a string that is no number (NaN) is false.  A count is   *)
(* modelled as [number |-> n] or as [text |-> k], the inherited value      *)
(* followed by k times "1".                                                *)
(***************************************************************************)
ObjectPrototypeKeys ==
    {"constructor", "toString", "valueOf", "hasOwnProperty", "isPrototypeOf",
     "propertyIsEnumerable", "toLocaleString", "__proto__"}

\* idCounts[id] after the counting loop over actions[1..n]
RECURSIVE IdCount(_, _, _)
IdCount(actions, n, id) ==
    IF n = 0
    THEN IF id \in ObjectPrototypeKeys THEN [text |-> 0] ELSE [number |-> 0]
    ELSE LET before == IdCount(actions, n - 1, id)
         IN  IF actions[n].id # id THEN before
             ELSE IF "number" \in DOMAIN before
                  THEN [number |-> before.number + 1]
                  ELSE [text |-> before.text + 1]

\* count > 1
CountAboveOne(count) == "number" \in DOMAIN count /\ count.number > 1

\* Object.entries(idCounts): the keys in the order they were first set.
RECURSIVE FirstOccurrences(_, _)
FirstOccurrences(actions, i) ==
    IF i > Len(actions) THEN << >>
    ELSE IF \E j \in 1..(i - 1) : actions[j].id = actions[i].id
         THEN FirstOccurrences(actions, i + 1)
         ELSE <<actions[i].id>> \o FirstOccurrences(actions, i + 1)

RECURSIVE DuplicateErrors(_, _)
DuplicateErrors(actions, keys) ==
    IF keys = << >> THEN << >>
    ELSE LET id == Head(keys)
             count == IdCount(actions, Len(actions), id)
         IN  (IF CountAboveOne(count)
              THEN <<Msg("Duplicate action ID: $ appears $ times.", <<Str(id), Num(count.number)>>)>>
              ELSE << >>)
               \o DuplicateErrors(actions, Tail(keys))

\* Mutant: value and unit are checked whatever the mode.
validateReentryAnyMode(reentry) ==
    LET validModes == {"once", "multiple", "time-based"}
        validUnits == {"hours", "days", "weeks"}
    IN  IF reentry.mode \notin validModes
        THEN <<Msg("settings.reentry.mode must be one of: once, multiple, time-based. Got: $.",
                   <<Str(reentry.mode)>>)>>
        ELSE (IF reentry.value = None \/ reentry.value[1] <= 0
              THEN <<Msg("settings.reentry with mode time-based requires a positive value.",
                         << >>)>>
              ELSE << >>)
              \o (IF ~Truthy(reentry.unit) \/ reentry.unit \notin validUnits
                  THEN <<Msg("settings.reentry.unit must be one of: hours, days, weeks. Got: $.",
                             <<Str(reentry.unit)>>)>>
                  ELSE << >>)

validateReentry(reentry) ==
    LET validModes == {"once", "multiple", "time-based"}
        validUnits == {"hours", "days", "weeks"}
    IN  IF reentry.mode \notin validModes
        THEN <<Msg("settings.reentry.mode must be one of: once, multiple, time-based. Got: $.",
                   <<Str(reentry.mode)>>)>>
        ELSE IF reentry.mode = "time-based"
             THEN (IF reentry.value = None \/ reentry.value[1] = 0 \/ reentry.value[1] <= 0
                   THEN <<Msg("settings.reentry with mode time-based requires a positive value.",
                              << >>)>>
                   ELSE << >>)
                   \o (IF ~Truthy(reentry.unit) \/ reentry.unit \notin validUnits
                       THEN <<Msg("settings.reentry.unit must be one of: hours, days, weeks. Got: $.",
                                  <<Str(reentry.unit)>>)>>
                       ELSE << >>)
             ELSE << >>

(***************************************************************************)
(* A filter object is [condition_groups |-> g], g being                    *)
(* [kind |-> "undefined"] (no such field), [kind |-> "object"] (a value    *)
(* that is no array) or [kind |-> "array", items |-> <<...>>].             *)
(***************************************************************************)
\* Mutant: an empty array counts as no array (a test of its length for truth).
NotAFilledArray(groups) == groups.kind # "array" \/ Len(groups.items) = 0

\* !f.condition_groups || !Array.isArray(f.condition_groups)
NotAnArray(groups) == groups.kind # "array"

FilterErrors(filter, which) ==
    IF NotAnArray(filter.condition_groups)
    THEN <<Msg("$ must have a condition_groups array.", <<Str(which)>>)>>
    ELSE << >>

FilterWarnings(filter, which) ==
    IF ~NotAnArray(filter.condition_groups) /\ Len(filter.condition_groups.items) = 0
    THEN <<Msg("$ has empty condition_groups - it will have no effect.", <<Str(which)>>)>>
    ELSE << >>

HasTriggerFilter(d) ==
    /\ d.trigger # None
    /\ d.trigger[1].type = "metric"
    /\ d.trigger[1].trigger_filter # None

validateFlowDefinition(d) ==
    LET actionIds == {a.id : a \in Range(d.actions)}
        errors ==
            (IF NameMissing(d.name) THEN <<Msg("Flow name is required.", << >>)>> ELSE << >>)
         \o (IF d.trigger = None
             THEN <<Msg("Flow trigger is required.", << >>)>>
             ELSE validateTrigger(d))
         \o (IF Len(d.actions) = 0
             THEN <<Msg("Flow must have at least one action.", << >>)>>
             ELSE << >>)
         \o (IF ~Truthy(d.entry_action_id)
             THEN <<Msg("entry_action_id is required - it must reference the first action.",
                        << >>)>>
             ELSE << >>)
         \o (IF Len(d.actions) > 0
             THEN (IF Truthy(d.entry_action_id) /\ d.entry_action_id \notin actionIds
                   THEN <<Msg("entry_action_id $ does not match any action ID.",
                              <<Str(d.entry_action_id)>>)>>
                   ELSE << >>)
                   \o DuplicateErrors(d.actions, FirstOccurrences(d.actions, 1))
                   \o AllLinkErrors(d.actions, 1, actionIds)
             ELSE << >>)
         \o (IF d.settings # None /\ d.settings[1].reentry # None
             THEN validateReentry(d.settings[1].reentry[1])
             ELSE << >>)
         \o (IF d.profile_filter # None
             THEN FilterErrors(d.profile_filter[1], "profile_filter")
             ELSE << >>)
         \o (IF HasTriggerFilter(d)
             THEN FilterErrors(d.trigger[1].trigger_filter[1], "trigger_filter")
             ELSE << >>)
        warnings ==
            (IF d.profile_filter # None
             THEN FilterWarnings(d.profile_filter[1], "profile_filter")
             ELSE << >>)
         \o (IF HasTriggerFilter(d)
             THEN FilterWarnings(d.trigger[1].trigger_filter[1], "trigger_filter")
             ELSE << >>)
    IN  [valid |-> Len(errors) = 0, errors |-> errors, warnings |-> warnings]

\* The definition after a call: validateFlowDefinition and its helpers only
\* read it; no statement assigns to it or to an object reachable from it.
\* Mutant: the validator trims definition.name in place.
DefinitionWithNameTrimmed(d) ==
    [d EXCEPT !.name = IF d.name = None THEN None ELSE Some(Trim(d.name[1]))]

\* The definition after a call: validateFlowDefinition assigns to no field of it.
DefinitionAfterValidation(d) == d

(***************************************************************************)
(* A caller validates the definition it holds (the build command of the    *)
(* CLI, POST /api/build), any number of times.                             *)
(***************************************************************************)
ValidateFlow ==
    /\ pc = "validate"
    /\ Len(validations) < MaxValidations
    /\ validations' = Append(validations, validateFlowDefinition(definition))
    /\ definition' = DefinitionAfterValidation(definition)
    /\ UNCHANGED <<pc, seqVars, compiled, retryVars, buildVars, entryVars,
            browserVars, webVars>>

\* Flows that differ in their top-level fields, over few actions.
FilterValues ==
    {[condition_groups |-> [kind |-> "undefined"]],
     [condition_groups |-> [kind |-> "object"]],
     [condition_groups |-> [kind |-> "array", items |-> << >>]],
     [condition_groups |-> [kind |-> "array",
                            items |-> <<[conditions |-> <<"profile-property">>]>>]]}

OptionOf(S) == {None} \cup {Some(x) : x \in S}

TriggerValues ==
    [type : {"metric"}, metric_name : {"Placed Order"}, metric_id : {Undefined},
     trigger_filter : OptionOf(FilterValues)]
      \cup [type : {"metric"}, metric_name : {Undefined}, metric_id : {Undefined, "M1"},
            trigger_filter : {None}]
      \cup [type : {"list"}, list_name : {Undefined, "VIP"}, list_id : {Undefined}]
      \cup [type : {"date-property"}, property_name : {Undefined, "birthday"}]
      \cup [type : {"segment"}]

ReentryValues ==
    [mode : {"once", "multiple", "time-based", "weekly"},
     value : {None, Some(-1), Some(0), Some(2)},
     unit : {Undefined, "days", "minutes"}]

SettingsValues ==
    [smart_sending : {None}, utm_tracking : {None}, reentry : OptionOf(ReentryValues)]

FieldActions ==
    {<< >>,
     <<MkAction("a", [type |-> "send-email", next |-> Undefined])>>,
     <<MkAction("a", [type |-> "send-email", next |-> "b"]),
       MkAction("b", [type |-> "time-delay", next |-> Undefined])>>}

FieldFlows ==
    [name : {None, Some(<< >>), Some(BlankName), Some(WelcomeName)},
     trigger : OptionOf(TriggerValues),
     actions : FieldActions,
     entry_action_id : {Undefined, "a"},
     profile_filter : OptionOf(FilterValues),
     settings : OptionOf(SettingsValues)]

InitValidate ==
    /\ definition \in FieldFlows
    /\ pc = "validate"
    /\ validations = << >>
    /\ SequenceIdle
    /\ CompileIdle
    /\ RetryIdle
    /\ BuildIdle
    /\ EntryIdle
    /\ BrowserIdle
    /\ WebIdle

NextValidate == ValidateFlow

SpecValidate == InitValidate /\ [][NextValidate]_vars

InitValidateGraph ==
    /\ IsGraphFlow(definition, GraphNames, GraphTypes)
    /\ pc = "validate"
    /\ validations = << >>
    /\ SequenceIdle
    /\ CompileIdle
    /\ RetryIdle
    /\ BuildIdle
    /\ EntryIdle
    /\ BrowserIdle
    /\ WebIdle

\* The build command validates the definition it loaded, once.
ValidateOnce ==
    /\ pc = "validate"
    /\ validations = << >>
    /\ validations' = <<validateFlowDefinition(definition)>>
    /\ definition' = DefinitionAfterValidation(definition)
    /\ UNCHANGED <<pc, seqVars, compiled, retryVars, buildVars, entryVars,
            browserVars, webVars>>

NextValidateGraph == ValidateOnce

SpecValidateGraph == InitValidateGraph /\ [][NextValidateGraph]_vars

(***************************************************************************)
(* The browser build: the build command of the CLI and POST /api/build     *)
(* hand a definition to BrowserFlowBuilder.buildFlow, and so to            *)
(* getActionSequence, only when validateFlowDefinition has accepted it.    *)
(***************************************************************************)
InitBuild ==
    /\ InitSequence
    /\ validateFlowDefinition(definition).valid

SpecBuild == InitBuild /\ [][NextSequence]_vars

(***************************************************************************)
(* FlowCreator: the transformation of the actions into the API format.     *)
(* Of the message of a send action the model keeps the name and the three  *)
(* booleans; its other fields are constants or copies of action fields     *)
(* that no setting touches, and its template_id (None when the message     *)
(* gets no such field).                                                    *)
(***************************************************************************)
Null == "<null>"

\* action.next || null
OrNull(link) == IF Truthy(link) THEN link ELSE Null

AllWeekdays ==
    <<"monday", "tuesday", "wednesday", "thursday", "friday", "saturday", "sunday">>

\* Mutant: weeks are treated like days.
transformTimeDelayDaysOrWeeks(action) ==
    LET isDays == action.delay_unit \in {"days", "weeks"}
    IN  [temporary_id |-> action.id,
         type |-> "time-delay",
         links |-> [next |-> OrNull(action.next)],
         data |-> [unit |-> action.delay_unit,
                   value |-> action.delay_value,
                   secondary_value |-> 0,
                   timezone |-> "profile",
                   delay_until_time |-> Null,
                   delay_until_weekdays |->
                       IF isDays THEN Some(AllWeekdays) ELSE None]]

transformTimeDelay(action) ==
    LET isDays == action.delay_unit = "days"
    IN  [temporary_id |-> action.id,
         type |-> "time-delay",
         links |-> [next |-> OrNull(action.next)],
         data |-> [unit |-> action.delay_unit,
                   value |-> action.delay_value,
                   secondary_value |-> 0,
                   timezone |-> "profile",
                   delay_until_time |-> Null,
                   delay_until_weekdays |->
                       IF isDays THEN Some(AllWeekdays) ELSE None]]

\* Mutant: perAction || flowDefault, so a per-action false falls through.
resolveSettingByTruth(perAction, flowDefault, fallback) ==
    IF perAction = Some(TRUE) THEN TRUE
    ELSE IF flowDefault # None THEN flowDefault[1]
    ELSE fallback

resolveSetting(perAction, flowDefault, fallback) ==
    IF perAction # None THEN perAction[1]
    ELSE IF flowDefault # None THEN flowDefault[1]
    ELSE fallback

\* settings?.smart_sending, settings?.utm_tracking
FlowDefault(settings, field) ==
    IF settings = None THEN None ELSE settings[1][field]

\* templateIds?.[action.id]: preCreatedTemplates is a plain object, so an id
\* it does not own reads what Object.prototype holds under that name.
TemplateIdOf(templates, id) ==
    IF id \in DOMAIN templates THEN Some(templates[id])
    ELSE IF id \in ObjectPrototypeKeys THEN Some("<inherited>")
    ELSE None

transformSendEmail(action, settings, templates) ==
    LET smartSending ==
            resolveSetting(action.smart_sending, FlowDefault(settings, "smart_sending"), TRUE)
        utmTracking ==
            resolveSetting(action.utm_tracking, FlowDefault(settings, "utm_tracking"), FALSE)
    IN  [temporary_id |-> action.id,
         type |-> "send-email",
         links |-> [next |-> OrNull(action.next)],
         data |-> [message |-> [name |-> action.name,
                                smart_sending_enabled |-> smartSending,
                                transactional |-> FALSE,
                                add_tracking_params |-> utmTracking,
                                template_id |-> TemplateIdOf(templates, action.id)],
                   status |-> "draft"]]

transformSendSms(action, settings) ==
    LET smartSending ==
            resolveSetting(action.smart_sending, FlowDefault(settings, "smart_sending"), TRUE)
        utmTracking ==
            resolveSetting(action.utm_tracking, FlowDefault(settings, "utm_tracking"), FALSE)
    IN  [temporary_id |-> action.id,
         type |-> "send-sms",
         links |-> [next |-> OrNull(action.next)],
         data |-> [message |-> [name |-> action.name,
                                smart_sending_enabled |-> smartSending,
                                transactional |-> FALSE,
                                add_tracking_params |-> utmTracking,
                                respecting_sms_quiet_hours |-> TRUE],
                   status |-> "draft"]]

ConsentFilter(channel) ==
    [condition_groups |->
        <<[conditions |->
            <<[type |-> "profile-marketing-consent",
               consent |-> [channel |-> channel,
                            can_receive_marketing |-> TRUE,
                            consent_status |-> [subscription |-> "subscribed",
                                                filters |-> Null]]]>>]>>]

\* Mutant: a custom condition always compiles to the empty filter.
buildConditionFilterDropsCustom(action) ==
    LET cfg == action.condition_config
    IN  CASE action.condition_type \in
                {"has-opened-email", "has-clicked-email", "has-received-email"} ->
                ConsentFilter("email")
          [] action.condition_type = "profile-marketing-consent" ->
                ConsentFilter(IF cfg # None /\ Truthy(cfg[1].channel)
                              THEN cfg[1].channel ELSE "email")
          [] action.condition_type = "custom" -> [condition_groups |-> << >>]
          [] OTHER -> ConsentFilter("email")

buildConditionFilter(action) ==
    LET cfg == action.condition_config
    IN  CASE action.condition_type \in
                {"has-opened-email", "has-clicked-email", "has-received-email"} ->
                ConsentFilter("email")
          [] action.condition_type = "profile-marketing-consent" ->
                ConsentFilter(IF cfg # None /\ Truthy(cfg[1].channel)
                              THEN cfg[1].channel ELSE "email")
          [] action.condition_type = "custom" ->
                IF cfg # None /\ cfg[1].profile_filter # None
                THEN cfg[1].profile_filter[1]
                ELSE [condition_groups |-> << >>]
          [] OTHER -> ConsentFilter("email")

transformConditionalSplit(action) ==
    [temporary_id |-> action.id,
     type |-> "conditional-split",
     links |-> [next_if_true |-> OrNull(action.next_if_true),
                next_if_false |-> OrNull(action.next_if_false)],
     data |-> [profile_filter |-> buildConditionFilter(action)]]

ABSplitError ==
    "A/B splits are not supported by the Klaviyo API. Use browser mode or remove the A/B split from this flow."

\* The action types transformAction returns a value for; it throws for the others.
Transformable ==
    {"time-delay", "send-email", "send-sms", "conditional-split"}

transformAction(action, settings, templates) ==
    CASE action.type = "time-delay" -> transformTimeDelay(action)
      [] action.type = "send-email" -> transformSendEmail(action, settings, templates)
      [] action.type = "send-sms" -> transformSendSms(action, settings)
      [] action.type = "conditional-split" -> transformConditionalSplit(action)

\* actions.map(action => this.transformAction(action, settings, templateIds)):
\* the first action it cannot transform ends the map with a throw.
transformActions(actions, settings, templates) ==
    LET bad == {i \in DOMAIN actions : actions[i].type \notin Transformable}
    IN  IF bad = {}
        THEN [kind |-> "returned",
              actions |-> [i \in DOMAIN actions |->
                              transformAction(actions[i], settings, templates)]]
        ELSE LET first == actions[CHOOSE i \in bad : \A j \in bad : i <= j]
             IN  [kind |-> "threw",
                  error |-> IF first.type = "ab-split"
                            THEN Msg(ABSplitError, << >>)
                            ELSE Msg("Unsupported action type: $", <<Str(first.type)>>)]

getMetricLabel(conditionType) ==
    CASE conditionType = "has-opened-email" -> "Opened Email"
      [] conditionType = "has-clicked-email" -> "Clicked Email"
      [] conditionType = "has-received-email" -> "Received Email"
      [] OTHER -> conditionType

\* action.condition_label, undefined in a definition that leaves it out.
ConditionLabel(action) ==
    IF "condition_label" \in DOMAIN action THEN action.condition_label ELSE Undefined

\* The lines buildConditionFilter writes to the logger for a split: a warning
\* for a metric-based kind and for an unknown kind, nothing else.
conditionLog(action) ==
    CASE action.condition_type \in
            {"has-opened-email", "has-clicked-email", "has-received-email"} ->
            <<LogLine("warn",
                      "Conditional split $ uses a placeholder condition. After flow creation, update this split in the Klaviyo UI to: What someone has done -> $.",
                      <<Str(ConditionLabel(action)),
                        Str(getMetricLabel(action.condition_type))>>)>>
      [] action.condition_type \in {"profile-marketing-consent", "custom"} -> << >>
      [] OTHER ->
            <<LogLine("warn", "Unknown condition type: $. Using consent placeholder.",
                      <<Str(action.condition_type)>>)>>

\* The lines transformActions writes: those of the splits it transforms, in
\* order, up to the action that makes it throw.
RECURSIVE transformLog(_)
transformLog(actions) ==
    IF actions = << >> \/ Head(actions).type \notin Transformable THEN << >>
    ELSE (IF Head(actions).type = "conditional-split"
          THEN conditionLog(Head(actions)) ELSE << >>)
           \o transformLog(Tail(actions))

\* buildFlow, step 3b.
TransformActions ==
    /\ pc = "compile"
    /\ compiled' = Some(transformActions(definition.actions, definition.settings,
                                         templateIds))
    /\ log' = log \o transformLog(definition.actions)
    /\ pc' = "compiled"
    /\ UNCHANGED <<definition, seqVars, validations, opts, attempt, invocations,
                   slept, lastError, label, outcome, buildVars, entryVars,
            browserVars, webVars>>

\* Flows whose actions differ in what the transformation reads.
MaxCompiled == 2

Flags == {None, Some(TRUE), Some(FALSE)}

ConfigValues ==
    {None,
     Some([channel |-> "sms", profile_filter |-> None]),
     Some([channel |-> Undefined,
           profile_filter |-> Some([condition_groups |-> <<"group">>])])}

CompileActions ==
    [id : {"a"}, type : {"time-delay"}, delay_value : {1, 3},
     delay_unit : {"minutes", "hours", "days", "weeks"}, next : {Undefined}]
      \cup [id : {"a"}, type : {"send-email"}, name : {"Email"},
            smart_sending : Flags, utm_tracking : Flags, next : {"b"}]
      \cup [id : {"a"}, type : {"send-sms"}, name : {"Sms"},
            smart_sending : Flags, utm_tracking : Flags, next : {Undefined}]
      \cup [id : {"a"}, type : {"conditional-split"},
            condition_type : {"has-opened-email", "has-clicked-email",
                              "has-received-email", "profile-marketing-consent",
                              "custom", "has-purchased"},
            condition_config : ConfigValues,
            next_if_true : {"b"}, next_if_false : {Undefined}]
      \cup [id : {"a"}, type : {"ab-split"},
            next_variant_a : {"b"}, next_variant_b : {Undefined}]

CompileSettings ==
    OptionOf([smart_sending : Flags, utm_tracking : Flags, reentry : {None}])

InitCompile ==
    /\ \E n \in 1..MaxCompiled :
        \E as \in [1..n -> CompileActions], st \in CompileSettings :
          definition = [name |-> Some(WelcomeName), trigger |-> Some(DefaultTrigger),
                        actions |-> as, entry_action_id |-> "a",
                        profile_filter |-> None, settings |-> st]
    /\ pc = "compile"
    /\ validations = << >>
    /\ SequenceIdle
    /\ CompileIdle
    /\ RetryIdle
    /\ BuildIdle
    /\ EntryIdle
    /\ BrowserIdle
    /\ WebIdle

NextCompile == TransformActions

SpecCompile == InitCompile /\ [][NextCompile]_vars

(***************************************************************************)
(* withRetry.  The strings it searches (error names and messages, the      *)
(* retryableErrors patterns) are sequences of characters.                  *)
(***************************************************************************)
MaxAttempts == 3
MaxLogLines == 1

DefaultMaxAttempts == 3
DefaultBaseDelay == 1000
DefaultBackoffFactor == 2
DefaultMaxDelay == 15000

DEFAULT_RETRY_OPTIONS ==
    [maxAttempts |-> DefaultMaxAttempts,
     baseDelay |-> DefaultBaseDelay,
     backoffFactor |-> DefaultBackoffFactor,
     maxDelay |-> DefaultMaxDelay,
     retryableErrors |-> None]

\* { ...DEFAULT_RETRY_OPTIONS, ...options }; a key options lacks is None.
MergeOptions(options) ==
    [k \in DOMAIN DEFAULT_RETRY_OPTIONS |->
        IF k = "retryableErrors" THEN options[k]
        ELSE IF options[k] # None THEN options[k][1]
        ELSE DEFAULT_RETRY_OPTIONS[k]]

\* String.prototype.includes
Includes(s, sub) ==
    \E i \in 0..(Len(s) - Len(sub)) : SubSeq(s, i + 1, i + Len(sub)) = sub

ErrorName == <<"E", "r", "r", "o", "r">>
TimeoutName == <<"T", "i", "m", "e", "o", "u", "t", "E", "r", "r", "o", "r">>
RateLimitMessage == <<"H", "T", "T", "P", " ", "4", "2", "9">>
AuthMessage == <<"H", "T", "T", "P", " ", "4", "0", "1">>
SlowMessage == <<"s", "l", "o", "w">>

\* error instanceof Error ? error : new Error(String(error))
ToError(thrown) ==
    IF thrown.kind = "Error" THEN thrown
    ELSE [kind |-> "Error", name |-> ErrorName, message |-> thrown.text]

\* Mutant: the list is only consulted when it holds more than one pattern.
NonRetryableOfSeveral(o, error) ==
    /\ o.retryableErrors # None
    /\ Len(o.retryableErrors[1]) > 1
    /\ ~\E k \in DOMAIN o.retryableErrors[1] :
          \/ Includes(error.message, o.retryableErrors[1][k])
          \/ Includes(error.name, o.retryableErrors[1][k])

\* The test of the catch block that ends the call on a non-retryable error.
NonRetryable(o, error) ==
    /\ o.retryableErrors # None
    /\ Len(o.retryableErrors[1]) > 0
    /\ ~\E k \in DOMAIN o.retryableErrors[1] :
          \/ Includes(error.message, o.retryableErrors[1][k])
          \/ Includes(error.name, o.retryableErrors[1][k])

RECURSIVE Pow(_, _)
Pow(b, e) == IF e = 0 THEN 1 ELSE b * Pow(b, e - 1)

Min(x, y) == IF x <= y THEN x ELSE y

\* Mutant: the exponent is attempt, not attempt - 1.
DelayFromAttempt(o, n) == Min(o.baseDelay * Pow(o.backoffFactor, n), o.maxDelay)

\* Math.min(opts.baseDelay * Math.pow(opts.backoffFactor, attempt - 1), opts.maxDelay)
Delay(o, n) == Min(o.baseDelay * Pow(o.backoffFactor, n - 1), o.maxDelay)

\* Mutant: attempt < opts.maxAttempts, one pass short.
LoopStopsOneShort(n, o) == n < o.maxAttempts

\* attempt <= opts.maxAttempts
LoopContinues(n, o) == n <= o.maxAttempts

\* One pass of the loop body: operation() is called and returns or throws.
InvokeOperation ==
    /\ pc = "retry-loop"
    /\ LoopContinues(attempt, opts)
    /\ \E settled \in
            {[kind |-> "resolved", value |-> "response"]}
              \cup {[kind |-> "rejected", thrown |-> t] :
                      t \in {[kind |-> "Error", name |-> ErrorName,
                              message |-> RateLimitMessage],
                             [kind |-> "Error", name |-> ErrorName,
                              message |-> AuthMessage],
                             [kind |-> "Error", name |-> TimeoutName,
                              message |-> SlowMessage],
                             [kind |-> "string", text |-> RateLimitMessage]}} :
          /\ invocations' = Append(invocations, settled)
          /\ IF settled.kind = "resolved"
             THEN /\ log' = IF attempt > 1
                            THEN Append(log, LogLine("info", "$ succeeded on attempt $",
                                                     <<Str(label), Num(attempt)>>))
                            ELSE log
                  /\ outcome' = Some([kind |-> "returned", value |-> settled.value])
                  /\ pc' = "retry-done"
                  /\ UNCHANGED <<attempt, slept, lastError>>
             ELSE LET error == ToError(settled.thrown)
                  IN  /\ lastError' = Some(error)
                      /\ IF NonRetryable(opts, error)
                         THEN /\ log' = Append(log, LogLine("error",
                                              "$ failed with non-retryable error: $",
                                              <<Str(label), Str(error.message)>>))
                              /\ outcome' = Some([kind |-> "threw",
                                                  error |-> Some(error)])
                              /\ pc' = "retry-done"
                              /\ UNCHANGED <<attempt, slept>>
                         ELSE IF attempt < opts.maxAttempts
                         THEN /\ slept' = Append(slept, Delay(opts, attempt))
                              /\ log' = Append(log, LogLine("warn",
                                              "$ failed (attempt $/$): $. Retrying in $ms...",
                                              <<Str(label), Num(attempt), Num(opts.maxAttempts),
                                                Str(error.message), Num(Delay(opts, attempt))>>))
                              /\ pc' = "retry-sleep"
                              /\ UNCHANGED <<attempt, outcome>>
                         ELSE /\ log' = Append(log, LogLine("error",
                                              "$ failed after $ attempts: $",
                                              <<Str(label), Num(opts.maxAttempts),
                                                Str(error.message)>>))
                              /\ attempt' = attempt + 1
                              /\ UNCHANGED <<pc, slept, outcome>>
    /\ UNCHANGED <<definition, seqVars, validations, compiled, opts, label, buildVars,
            entryVars, browserVars, webVars>>

\* Mutant: the pass after a sleep is not counted.
WakeUpUncounted ==
    /\ pc = "retry-sleep"
    /\ pc' = "retry-loop"
    /\ UNCHANGED <<definition, seqVars, validations, compiled, opts, attempt,
                   invocations, slept, lastError, label, log, outcome, buildVars,
                   entryVars, browserVars, webVars>>

\* The sleep ends and the loop goes to its next pass.
WakeUp ==
    /\ pc = "retry-sleep"
    /\ attempt' = attempt + 1
    /\ pc' = "retry-loop"
    /\ UNCHANGED <<definition, seqVars, validations, compiled, opts, invocations,
                   slept, lastError, label, log, outcome, buildVars, entryVars,
            browserVars, webVars>>

\* Mutant: the error of the first attempt is kept and thrown.
ThrowFirstError ==
    /\ pc = "retry-loop"
    /\ ~LoopContinues(attempt, opts)
    /\ outcome' = Some([kind |-> "threw",
                        error |-> IF invocations = << >> THEN None
                                  ELSE Some(ToError(invocations[1].thrown))])
    /\ pc' = "retry-done"
    /\ UNCHANGED <<definition, seqVars, validations, compiled, opts, attempt,
                   invocations, slept, lastError, label, log, buildVars,
            entryVars, browserVars, webVars>>

\* The loop is over: throw lastError!
ThrowLastError ==
    /\ pc = "retry-loop"
    /\ ~LoopContinues(attempt, opts)
    /\ outcome' = Some([kind |-> "threw", error |-> lastError])
    /\ pc' = "retry-done"
    /\ UNCHANGED <<definition, seqVars, validations, compiled, opts, attempt,
                   invocations, slept, lastError, label, log, buildVars,
            entryVars, browserVars, webVars>>

RateLimitPattern == <<"4", "2", "9">>
TimeoutPattern == <<"T", "i", "m", "e", "o", "u", "t">>

RetryOptionValues ==
    [maxAttempts : OptionOf(0..MaxAttempts),
     baseDelay : OptionOf({100}),
     backoffFactor : OptionOf({3}),
     maxDelay : OptionOf({2500}),
     retryableErrors : OptionOf({<< >>, <<RateLimitPattern>>,
                                 <<TimeoutPattern, RateLimitPattern>>})]

CreateFlowLabel ==
    <<"C", "r", "e", "a", "t", "e", " ", "f", "l", "o", "w", " ", "v", "i",
      "a", " ", "A", "P", "I">>
UploadLabel ==
    <<"U", "p", "l", "o", "a", "d", " ", "i", "m", "a", "g", "e", ":", " ",
      "a", ".", "p", "n", "g">>

InitRetry ==
    /\ \E options \in RetryOptionValues : opts = MergeOptions(options)
    /\ label \in {CreateFlowLabel, UploadLabel}
    /\ log = << >>
    /\ attempt = 1
    /\ invocations = << >>
    /\ slept = << >>
    /\ lastError = None
    /\ outcome = None
    /\ pc = "retry-loop"
    /\ definition = None
    /\ validations = << >>
    /\ SequenceIdle
    /\ CompileIdle
    /\ BuildIdle
    /\ EntryIdle
    /\ BrowserIdle
    /\ WebIdle

NextRetry == InvokeOperation \/ WakeUp \/ ThrowLastError

SpecRetry == InitRetry /\ [][NextRetry]_vars

(***************************************************************************)
(* APIFlowCreator.buildFlow.  The account is what the remote side holds;   *)
(* each request the client sends may also fail.  The email contents of the *)
(* flows built here name no local image file, so the image upload loop has *)
(* nothing to do.  metricIdCache starts empty, as in a fresh process.      *)
(***************************************************************************)
Uppercase ==
    <<"A", "B", "C", "D", "E", "F", "G", "H", "I", "J", "K", "L", "M",
      "N", "O", "P", "Q", "R", "S", "T", "U", "V", "W", "X", "Y", "Z">>
Lowercase ==
    <<"a", "b", "c", "d", "e", "f", "g", "h", "i", "j", "k", "l", "m",
      "n", "o", "p", "q", "r", "s", "t", "u", "v", "w", "x", "y", "z">>

\* String.prototype.toLowerCase
ToLowerCase(cs) ==
    [i \in DOMAIN cs |->
        IF \E k \in DOMAIN Uppercase : Uppercase[k] = cs[i]
        THEN Lowercase[CHOOSE k \in DOMAIN Uppercase : Uppercase[k] = cs[i]]
        ELSE cs[i]]

\* The characters of the metric names that occur.
Chars(name) ==
    CASE name = "Placed Order" ->
            <<"P", "l", "a", "c", "e", "d", " ", "O", "r", "d", "e", "r">>
      [] name = "order" -> <<"o", "r", "d", "e", "r">>
      [] name = "Refund" -> <<"R", "e", "f", "u", "n", "d">>
      [] name = "Started Checkout" ->
            <<"S", "t", "a", "r", "t", "e", "d", " ",
              "C", "h", "e", "c", "k", "o", "u", "t">>

\* metricIdCache[name]
CacheGet(cache, name) ==
    IF \E k \in DOMAIN cache : cache[k].name = name
    THEN cache[CHOOSE k \in DOMAIN cache : cache[k].name = name].id
    ELSE IF name \in ObjectPrototypeKeys THEN "<inherited>"
    ELSE Undefined

\* The fuzzy match: the first cached name that holds the wanted name or is
\* held by it, case-insensitively.
FuzzyGet(cache, name) ==
    LET lowerName == ToLowerCase(Chars(name))
        hits == {k \in DOMAIN cache :
                    \/ Includes(ToLowerCase(Chars(cache[k].name)), lowerName)
                    \/ Includes(lowerName, ToLowerCase(Chars(cache[k].name)))}
    IN  IF hits = {} THEN Undefined
        ELSE cache[CHOOSE k \in hits : \A j \in hits : k <= j].id

\* Mutant: a metric that is not found is passed on without an id.
resolveMetricTriggerOmitting(t, cache) ==
    LET byId == t.metric_id
        byName == IF Truthy(byId) THEN byId ELSE CacheGet(cache, t.metric_name)
        metricId == IF Truthy(byName) THEN byName ELSE FuzzyGet(cache, t.metric_name)
    IN  Some([type |-> "metric", id |-> metricId,
              trigger_filter |-> t.trigger_filter])

\* resolveMetricTrigger, given the cache after its loadMetricCache call.
resolveMetricTrigger(t, cache) ==
    LET byId == t.metric_id
        byName == IF Truthy(byId) THEN byId ELSE CacheGet(cache, t.metric_name)
        metricId == IF Truthy(byName) THEN byName ELSE FuzzyGet(cache, t.metric_name)
    IN  IF ~Truthy(metricId) THEN None
        ELSE Some([type |-> "metric", id |-> metricId,
                   trigger_filter |-> t.trigger_filter])

\* resolveListTrigger, given what findListByName returned (Undefined: null).
resolveListTrigger(t, found) ==
    LET listId == IF Truthy(t.list_id) THEN t.list_id ELSE found
    IN  IF ~Truthy(listId) THEN None
        ELSE Some([type |-> "list", id |-> listId])

resolveDateTrigger(t) == Some([type |-> "date-property", id |-> t.property_name])

\* client.findListByName: the id of the list of that name, null when there
\* is none.
findListByName(lists, name) ==
    IF \E k \in DOMAIN lists : lists[k].name = name
    THEN lists[CHOOSE k \in DOMAIN lists :
                 /\ lists[k].name = name
                 /\ \A j \in DOMAIN lists : lists[j].name = name => k <= j].id
    ELSE Undefined

getTriggerName(t) ==
    CASE t.type = "metric" -> t.metric_name
      [] t.type = "list" -> t.list_name
      [] t.type = "date-property" -> t.property_name
      [] OTHER -> "Unknown"

\* The BuildResult buildFlow starts from.
NewResult ==
    [success |-> FALSE, mode |-> "api", errors |-> << >>, warnings |-> << >>,
     flowId |-> None, actionsCreated |-> 0]

WithError(res, msg) == [res EXCEPT !.errors = Append(@, msg)]

\* Step 1: client.testConnection().
TestConnection ==
    /\ pc = "api-connect"
    /\ requests' = Append(requests, "GET /flows/")
    /\ \E connected \in BOOLEAN :
          IF connected
          THEN /\ pc' = "api-metrics"
               /\ UNCHANGED result
          ELSE /\ result' = Some(WithError(result[1],
                     Msg("Failed to connect to Klaviyo API. Check your API key.", << >>)))
               /\ pc' = "api-done"
    /\ UNCHANGED <<definition, seqVars, validations, compiled, retryVars, config,
                   account, metricIdCache, resolved, templateIds, entryVars,
            browserVars, webVars>>

\* loadMetricCache: nothing when the cache is filled; else getAllMetrics, which
\* fills the cache or throws (a warning is logged and the cache stays empty).
CacheAfterLoad(cache, loaded) == IF Len(cache) > 0 THEN cache ELSE loaded

\* Step 2: loadMetricCache().
LoadMetricCache ==
    /\ pc = "api-metrics"
    /\ requests' = IF Len(metricIdCache) > 0 THEN requests
                   ELSE Append(requests, "GET /metrics/")
    /\ \E loaded \in {<< >>, account.metrics} :
          metricIdCache' = CacheAfterLoad(metricIdCache, loaded)
    /\ pc' = "api-trigger"
    /\ UNCHANGED <<definition, seqVars, validations, compiled, retryVars, config,
                   account, resolved, templateIds, result, entryVars,
            browserVars, webVars>>

\* Step 3: resolveTrigger(definition.trigger) and the return when it is null.
ResolveTrigger ==
    /\ pc = "api-trigger"
    /\ LET t == definition.trigger[1]
           loads == t.type = "metric" /\ ~Truthy(t.metric_id) /\ Len(metricIdCache) = 0
           looksUp == t.type = "list" /\ ~Truthy(t.list_id)
       IN  \E loaded \in {<< >>, account.metrics},
              found \in {Undefined, findListByName(account.lists, getTriggerName(t))} :
             LET cache == IF t.type = "metric" /\ ~Truthy(t.metric_id)
                          THEN CacheAfterLoad(metricIdCache, loaded)
                          ELSE metricIdCache
                 got == CASE t.type = "metric" -> resolveMetricTrigger(t, cache)
                          [] t.type = "list" -> resolveListTrigger(t, found)
                          [] t.type = "date-property" -> resolveDateTrigger(t)
                          [] OTHER -> None
             IN  /\ metricIdCache' = cache
                 /\ requests' = IF loads THEN Append(requests, "GET /metrics/")
                                ELSE IF looksUp THEN Append(requests, "GET /lists/")
                                ELSE requests
                 /\ resolved' = got
                 /\ IF got = None
                    THEN /\ result' = Some(WithError(result[1],
                               Msg("Could not resolve trigger. Metric/list $ not found in your Klaviyo account.",
                                   <<Str(getTriggerName(t))>>)))
                         /\ pc' = "api-done"
                    ELSE /\ pc' = "api-templates"
                         /\ UNCHANGED result
    /\ UNCHANGED <<definition, seqVars, validations, compiled, retryVars, config,
                   account, templateIds, entryVars, browserVars, webVars>>

\* a.type === 'send-email' && !!a.content
HasContent(a) == a.type = "send-email" /\ a.content # None

emailsWithContent(actions) ==
    SelectSeq([i \in DOMAIN actions |-> i], LAMBDA i : HasContent(actions[i]))

\* Pre-phase: one createTemplate request per email with content; a request
\* that fails leaves a warning and no template id.
CreateTemplates ==
    /\ pc = "api-templates"
    /\ LET emails == emailsWithContent(definition.actions)
       IN  \E created \in SUBSET Range(emails) :
             /\ requests' = requests \o [k \in DOMAIN emails |-> "POST /templates/"]
             /\ templateIds' = [id \in {definition.actions[i].id : i \in created} |->
                                  <<"template of", id>>]
             /\ result' = Some([result[1] EXCEPT !.warnings = @ \o
                             [k \in DOMAIN SelectSeq(emails, LAMBDA i : i \notin created) |->
                                Msg("Template for $ could not be pre-created.",
                                    <<Str(definition.actions[
                                            SelectSeq(emails, LAMBDA i : i \notin created)[k]].name)>>)]])
    /\ pc' = "api-transform"
    /\ UNCHANGED <<definition, seqVars, validations, compiled, retryVars, config,
                   account, metricIdCache, resolved, entryVars, browserVars, webVars>>

\* Mutant: the catch block only logs the failure and pushes the hints.
CatchBlockHintsOnly(res, message, mentions) ==
    IF "429" \in mentions
    THEN WithError(res, Msg("Rate limited. Wait a moment and try again.", << >>))
    ELSE res

\* The catch block of buildFlow: the failure and the hints that go with the
\* status codes its message mentions.
CatchBlock(res, message, mentions) ==
    LET failed == WithError(res, Msg("API flow creation failed: $", <<message>>))
        auth == IF mentions \cap {"401", "403"} # {}
                THEN WithError(failed, Msg("Authentication failed. Verify your KLAVIYO_API_KEY is correct and has write permissions.", << >>))
                ELSE failed
        invalid == IF "422" \in mentions
                   THEN WithError(auth, Msg("Validation error. The flow definition may have invalid fields. Check the Klaviyo API docs.", << >>))
                   ELSE auth
    IN  IF "429" \in mentions
        THEN WithError(invalid, Msg("Rate limited. Wait a moment and try again.", << >>))
        ELSE invalid

\* { maxAttempts: this.config.maxRetries }
CreateFlowOptions(c) ==
    [maxAttempts |-> Some(c.maxRetries), baseDelay |-> None, backoffFactor |-> None,
     maxDelay |-> None, retryableErrors |-> None]

\* Steps 3b to 5: transformActions, which may throw into the catch block, then
\* the payload and the call of withRetry on client.createFlow(payload).
TransformAndSubmit ==
    /\ pc = "api-transform"
    /\ LET apiActions == transformActions(definition.actions, definition.settings,
                                          templateIds)
       IN  /\ compiled' = Some(apiActions)
           /\ log' = log \o transformLog(definition.actions)
           /\ IF apiActions.kind = "threw"
              THEN /\ result' = Some(CatchBlock(result[1], apiActions.error, {}))
                   /\ pc' = "api-done"
                   /\ UNCHANGED <<opts, attempt, invocations, slept, lastError,
                                  label, outcome>>
              ELSE /\ opts' = MergeOptions(CreateFlowOptions(config[1]))
                   /\ label' = CreateFlowLabel
                   /\ attempt' = 1
                   /\ lastError' = None
                   /\ pc' = "retry-loop"
                   /\ UNCHANGED <<invocations, slept, outcome, result>>
    /\ UNCHANGED <<definition, seqVars, validations, config, account, metricIdCache,
                   resolved, templateIds, requests, entryVars, browserVars, webVars>>

StatusCodes ==
    [c \in {"401", "403", "422", "429"} |->
        CASE c = "401" -> <<"4", "0", "1">>
          [] c = "403" -> <<"4", "0", "3">>
          [] c = "422" -> <<"4", "2", "2">>
          [] c = "429" -> <<"4", "2", "9">>]

\* Step 6 when withRetry returned, the catch block when it threw (a thrown
\* null reads "null").
FinishBuild ==
    /\ pc = "retry-done"
    /\ result # None
    /\ IF outcome[1].kind = "returned"
       THEN result' = Some([result[1] EXCEPT !.success = TRUE,
                                             !.flowId = Some(outcome[1].value),
                                             !.actionsCreated = Len(definition.actions)])
       ELSE LET msg == IF outcome[1].error = None THEN <<"n", "u", "l", "l">>
                       ELSE outcome[1].error[1].message
            IN  result' = Some(CatchBlock(result[1], Str(msg),
                                          {c \in DOMAIN StatusCodes :
                                              Includes(msg, StatusCodes[c])}))
    /\ pc' = "api-done"
    /\ UNCHANGED <<definition, seqVars, validations, compiled, retryVars, config,
                   account, metricIdCache, resolved, templateIds, requests,
            entryVars, browserVars, webVars>>

BuildTriggers ==
    [type : {"metric"}, metric_name : {"Placed Order", "order", "Refund"},
     metric_id : {Undefined}, trigger_filter : {None}]
      \cup [type : {"metric"}, metric_name : {Undefined}, metric_id : {"M9"},
            trigger_filter : {None}]
      \cup [type : {"list"}, list_name : {"VIP", "Gold"}, list_id : {Undefined}]
      \cup [type : {"list"}, list_name : {Undefined}, list_id : {"L7"}]
      \cup [type : {"date-property"}, property_name : {"birthday"}]

EmailWithContent(id, next) ==
    [id |-> id, type |-> "send-email", name |-> "Email", smart_sending |-> None,
     utm_tracking |-> None, content |-> Some("sections"), next |-> next]

SplitOn(id, kind, text, next) ==
    [id |-> id, type |-> "conditional-split", condition_type |-> kind,
     condition_label |-> text, condition_config |-> None, next_if_true |-> next,
     next_if_false |-> Undefined]

BuildActions ==
    {<<EmailWithContent("a", "b"),
       [id |-> "b", type |-> "time-delay", delay_value |-> 1, delay_unit |-> "days",
        next |-> Undefined]>>,
     <<EmailWithContent("a", "b"),
       [id |-> "b", type |-> "ab-split", next_variant_a |-> Undefined,
        next_variant_b |-> Undefined]>>,
     <<[id |-> "a", type |-> "send-sms", name |-> "Sms", smart_sending |-> None,
        utm_tracking |-> None, next |-> Undefined]>>,
     <<SplitOn("a", "has-opened-email", "Opened?", "b"),
       SplitOn("b", "loyalty-tier", "Gold tier?", Undefined)>>,
     <<SplitOn("a", "profile-marketing-consent", "Subscribed?", Undefined)>>}

Accounts ==
    {[metrics |-> << >>, lists |-> << >>],
     [metrics |-> <<[name |-> "Placed Order", id |-> "M1"]>>,
      lists |-> <<[name |-> "VIP", id |-> "L1"]>>],
     [metrics |-> <<[name |-> "Started Checkout", id |-> "M2"],
                    [name |-> "Placed Order", id |-> "M1"]>>,
      lists |-> <<[name |-> "VIP", id |-> "L1"]>>]}

InitApiBuild ==
    /\ \E t \in BuildTriggers, as \in BuildActions :
          definition = [name |-> Some(WelcomeName), trigger |-> Some(t), actions |-> as,
                        entry_action_id |-> "a", profile_filter |-> None,
                        settings |-> None]
    /\ \E n \in 0..MaxAttempts : config = Some([maxRetries |-> n])
    /\ account \in Accounts
    /\ metricIdCache = << >>
    /\ resolved = None
    /\ templateIds = << >>
    /\ requests = << >>
    /\ result = Some(NewResult)
    /\ pc = "api-connect"
    /\ validations = << >>
    /\ SequenceIdle
    /\ CompileIdle
    /\ RetryIdle
    /\ EntryIdle
    /\ BrowserIdle
    /\ WebIdle

NextApiBuild ==
    \/ TestConnection
    \/ LoadMetricCache
    \/ ResolveTrigger
    \/ CreateTemplates
    \/ TransformAndSubmit
    \/ InvokeOperation
    \/ WakeUp
    \/ ThrowLastError
    \/ FinishBuild

SpecApiBuild == InitApiBuild /\ [][NextApiBuild]_vars

(***************************************************************************)
(* The build entry points: the action of the CLI build command and the     *)
(* background task of POST /api/build, from the loaded config on.  The     *)
(* definition was read and parsed, and the web request carries no          *)
(* settingsOverrides.  A backend is a buildFlow call of APIFlowCreator     *)
(* ("api") or of BrowserFlowBuilder ("browser"); how it ends is the        *)
(* backend's affair, except that the API creator cannot succeed on a flow  *)
(* with an ab-split (transformAction throws).  Phase 2 runs a              *)
(* BrowserFlowConfigurator on the created flow ("configurator").           *)
(***************************************************************************)
\* validateConfig(config)
validateConfig(c) ==
    (IF c.mode \in {"api", "hybrid"} /\ ~Truthy(c.apiKey)
     THEN <<Msg("KLAVIYO_API_KEY is required for API mode. Set it in .env or pass --api-key.", << >>)>>
     ELSE << >>)
     \o (IF c.mode \in {"browser", "hybrid"}
         THEN (IF ~Truthy(c.email)
               THEN <<Msg("KLAVIYO_EMAIL is required for browser mode. Set it in .env.", << >>)>>
               ELSE << >>)
               \o (IF ~Truthy(c.password)
                   THEN <<Msg("KLAVIYO_PASSWORD is required for browser mode. Set it in .env.", << >>)>>
                   ELSE << >>)
         ELSE << >>)

\* definition.actions.some(a => a.type === 'ab-split')
hasABSplit(d) == \E i \in DOMAIN d.actions : d.actions[i].type = "ab-split"

\* What creator.buildFlow(definition) may return: success with the flow id,
\* or a failure; only a failure when the flow has an ab-split.
ApiResults(d) ==
    {[success |-> FALSE, mode |-> "api", flowId |-> FALSE, errors |-> <<"failed">>,
      warnings |-> << >>, screenshots |-> << >>]}
      \cup (IF hasABSplit(d) THEN {}
            ELSE {[success |-> TRUE, mode |-> "api", flowId |-> TRUE,
                   errors |-> << >>, warnings |-> << >>, screenshots |-> << >>]})

\* What builder.buildFlow(definition) may return.
BrowserResults ==
    {r \in [success : BOOLEAN, mode : {"browser"}, flowId : BOOLEAN,
            errors : {<< >>, <<"failed">>}, warnings : {<< >>},
            screenshots : {<<"flow-complete">>}] :
        r.success => r.errors = << >>}

Called(backend, r) == [backend |-> backend, success |-> r.success]

\* process.exit(1), or the 'complete' event with success false, before any
\* build result exists.
Stopped == Some([success |-> FALSE])

\* const configErrors = validateConfig(config) and the exit on errors.
CheckConfig ==
    /\ pc = "entry-config"
    /\ IF Len(validateConfig(config[1])) > 0
       THEN completion' = Stopped /\ pc' = "entry-done"
       ELSE pc' = "entry-validate" /\ UNCHANGED completion
    /\ UNCHANGED <<definition, seqVars, validations, compiled, retryVars, buildVars,
                   entry, backends, browserVars, webVars>>

\* Mutant: the errors of the validation are logged like its warnings.
ValidateDefinitionAndGoOn ==
    /\ pc = "entry-validate"
    /\ validations' = Append(validations, validateFlowDefinition(definition))
    /\ definition' = DefinitionAfterValidation(definition)
    /\ pc' = "entry-phase1"
    /\ UNCHANGED <<seqVars, compiled, retryVars, buildVars, entry, backends,
                   completion, browserVars, webVars>>

\* const validation = validateFlowDefinition(definition) and the exit when it
\* is not valid; the warnings are only logged.
ValidateDefinition ==
    /\ pc = "entry-validate"
    /\ validations' = Append(validations, validateFlowDefinition(definition))
    /\ definition' = DefinitionAfterValidation(definition)
    /\ IF ~validateFlowDefinition(definition).valid
       THEN completion' = Stopped /\ pc' = "entry-done"
       ELSE pc' = "entry-phase1" /\ UNCHANGED completion
    /\ UNCHANGED <<seqVars, compiled, retryVars, buildVars, entry, backends,
            browserVars, webVars>>

\* CLI, phase 1: switch (config.mode), with buildHybrid up to its first
\* buildFlow call.
CliPhase1 ==
    /\ pc = "entry-phase1"
    /\ entry = Some("cli")
    /\ LET mode == config[1].mode
           viaBrowser == \/ mode = "browser"
                         \/ mode = "hybrid" /\ hasABSplit(definition)
           viaAPI == \/ mode = "api"
                     \/ mode = "hybrid" /\ ~hasABSplit(definition)
       IN  IF viaBrowser
           THEN \E r \in BrowserResults :
                  /\ backends' = Append(backends, Called("browser", r))
                  /\ result' = Some(r)
                  /\ pc' = "entry-phase2"
                  /\ UNCHANGED completion
           ELSE IF viaAPI
           THEN \E r \in ApiResults(definition) :
                  /\ backends' = Append(backends, Called("api", r))
                  /\ result' = Some(r)
                  /\ pc' = IF mode = "hybrid" /\ ~r.success THEN "entry-fallback"
                           ELSE "entry-phase2"
                  /\ UNCHANGED completion
           ELSE /\ completion' = Stopped
                /\ pc' = "entry-done"
                /\ UNCHANGED <<backends, result>>
    /\ UNCHANGED <<definition, seqVars, validations, compiled, retryVars, config,
                   account, metricIdCache, resolved, templateIds, requests, entry,
            browserVars, webVars>>

\* buildHybrid after a failed API build: the browser build and its warning.
HybridFallback ==
    /\ pc = "entry-fallback"
    /\ \E r \in BrowserResults :
          /\ backends' = Append(backends, Called("browser", r))
          /\ result' = Some([r EXCEPT !.warnings =
                                Append(@, "Built via browser automation (API fallback).")])
    /\ pc' = "entry-phase2"
    /\ UNCHANGED <<definition, seqVars, validations, compiled, retryVars, config,
                   account, metricIdCache, resolved, templateIds, requests, entry,
                   completion, browserVars, webVars>>

\* let effectiveMode = mode; if (hasABSplit && mode === 'api') effectiveMode = 'browser'
effectiveMode(mode, d) == IF hasABSplit(d) /\ mode = "api" THEN "browser" ELSE mode

\* Web, phase 1: the switch to browser mode, its credentials check, and the
\* one buildFlow call.
WebPhase1 ==
    /\ pc = "entry-phase1"
    /\ entry = Some("web")
    /\ LET c == config[1]
       IN  IF /\ hasABSplit(definition)
              /\ c.mode = "api"
              /\ (~Truthy(c.email) \/ ~Truthy(c.password))
           THEN /\ completion' = Stopped
                /\ pc' = "entry-done"
                /\ UNCHANGED <<backends, result>>
           ELSE IF effectiveMode(c.mode, definition) = "browser"
           THEN \E r \in BrowserResults :
                  /\ backends' = Append(backends, Called("browser", r))
                  /\ result' = Some(r)
                  /\ pc' = "entry-phase2"
                  /\ UNCHANGED completion
           ELSE \E r \in ApiResults(definition) :
                  /\ backends' = Append(backends, Called("api", r))
                  /\ result' = Some(r)
                  /\ pc' = "entry-phase2"
                  /\ UNCHANGED completion
    /\ UNCHANGED <<definition, seqVars, validations, compiled, retryVars, config,
                   account, metricIdCache, resolved, templateIds, requests, entry,
            browserVars, webVars>>

\* definition.settings?.reentry
needsReentry(d) == d.settings # None /\ d.settings[1].reentry # None

\* effectiveMode === 'browser' && definition.profile_filter &&
\* definition.profile_filter.condition_groups?.length > 0
needsProfileFilter(mode, d) ==
    /\ effectiveMode(mode, d) = "browser"
    /\ d.profile_filter # None
    /\ d.profile_filter[1].condition_groups.kind = "array"
    /\ Len(d.profile_filter[1].condition_groups.items) > 0

\* How a call of the configurator ends: it throws, or it returns what it set,
\* its errors and its screenshots.
ConfiguratorOutcomes ==
    {[kind |-> "threw"]}
      \cup [kind : {"returned"}, reentrySet : BOOLEAN, profileFilterSet : BOOLEAN,
            errors : {<< >>, <<"Login failed">>},
            screenshots : {<< >>, <<"reentry">>}]

WithWarnings(res, ws) == [res EXCEPT !.warnings = @ \o ws]

\* Mutant: a throw in phase 2 makes the build a failure.
runPhase2FailsBuild(res, withCredentials, o) ==
    IF ~withCredentials
    THEN WithWarnings(res, <<"Re-entry config requires browser automation but KLAVIYO_EMAIL/KLAVIYO_PASSWORD are not set.">>)
    ELSE IF o.kind = "threw"
    THEN [res EXCEPT !.success = FALSE,
                     !.errors = Append(@, "Phase 2 failed. Set re-entry manually.")]
    ELSE [WithWarnings(res,
              (IF o.reentrySet
               THEN <<"Re-entry set via browser automation.">>
               ELSE <<"Re-entry could not be set automatically. Configure manually in Klaviyo.">>)
               \o o.errors)
            EXCEPT !.screenshots = @ \o o.screenshots]

\* runPhase2 of the CLI: what it makes of the result, given whether the
\* browser credentials are set and how configureReentry ended.
runPhase2(res, withCredentials, o) ==
    IF ~withCredentials
    THEN WithWarnings(res, <<"Re-entry config requires browser automation but KLAVIYO_EMAIL/KLAVIYO_PASSWORD are not set.">>)
    ELSE IF o.kind = "threw"
    THEN WithWarnings(res, <<"Phase 2 failed. Set re-entry manually.">>)
    ELSE [WithWarnings(res,
              (IF o.reentrySet
               THEN <<"Re-entry set via browser automation.">>
               ELSE <<"Re-entry could not be set automatically. Configure manually in Klaviyo.">>)
               \o o.errors)
            EXCEPT !.screenshots = @ \o o.screenshots]

\* Phase 2 of the web route: what it makes of the result.
webPhase2(res, withCredentials, o, reentry, profileFilter) ==
    IF ~withCredentials
    THEN WithWarnings(res,
            (IF reentry
             THEN <<"Re-entry needs manual configuration (no browser credentials).">>
             ELSE << >>)
             \o (IF profileFilter
                 THEN <<"Profile filter needs manual configuration (no browser credentials).">>
                 ELSE << >>))
    ELSE IF o.kind = "threw"
    THEN WithWarnings(res, <<"Browser config failed. Set manually.">>)
    ELSE [WithWarnings(res,
              (IF ~o.reentrySet /\ reentry
               THEN <<"Re-entry needs manual configuration in Klaviyo.">>
               ELSE << >>)
               \o (IF ~o.profileFilterSet /\ profileFilter
                   THEN <<"Profile filter needs manual configuration in Klaviyo.">>
                   ELSE << >>)
               \o o.errors)
            EXCEPT !.screenshots = @ \o o.screenshots]

\* Phase 2 and the end: on a flow that was created, when the definition asks
\* for it, the configurator is called if the browser credentials are set, and
\* what came of it is added to the result; then the result is printed (CLI,
\* exit code by success) or sent ('complete').
Phase2 ==
    /\ pc = "entry-phase2"
    /\ LET c == config[1]
           r == result[1]
           cli == entry = Some("cli")
           reentry == needsReentry(definition)
           profileFilter == ~cli /\ needsProfileFilter(c.mode, definition)
           needed == r.success /\ r.flowId /\ (reentry \/ profileFilter)
           withCredentials == Truthy(c.email) /\ Truthy(c.password)
       IN  \E o \in ConfiguratorOutcomes :
             /\ backends' = IF needed /\ withCredentials
                            THEN Append(backends, [backend |-> "configurator",
                                                   success |-> o.kind = "returned"])
                            ELSE backends
             /\ result' = IF ~needed THEN result
                          ELSE IF cli THEN Some(runPhase2(r, withCredentials, o))
                          ELSE Some(webPhase2(r, withCredentials, o, reentry,
                                              profileFilter))
             /\ completion' = Some([success |-> result'[1].success])
    /\ pc' = "entry-done"
    /\ UNCHANGED <<definition, seqVars, validations, compiled, retryVars, config,
                   account, metricIdCache, resolved, templateIds, requests, entry,
                   browserVars, webVars>>

EntryModes == {"api", "browser", "hybrid", "turbo"}

EntryConfigs ==
    [mode : EntryModes, apiKey : {Undefined, "pk_1"}, email : {Undefined, "me@shop.io"},
     password : {Undefined, "secret"}]

EntryActions ==
    {<< >>,
     <<MkAction("a", [type |-> "send-email", next |-> "b"])>>,
     <<MkAction("a", [type |-> "send-email", next |-> "b"]),
       MkAction("b", [type |-> "time-delay", next |-> Undefined])>>,
     <<MkAction("a", [type |-> "send-email", next |-> "b"]),
       MkAction("b", [type |-> "ab-split", next_variant_a |-> Undefined,
                      next_variant_b |-> Undefined])>>}

EntrySettings ==
    {None,
     Some([smart_sending |-> None, utm_tracking |-> None,
           reentry |-> Some([mode |-> "once", value |-> None, unit |-> Undefined])])}

EntryFlows ==
    [name : {Some(BlankName), Some(WelcomeName)},
     trigger : {Some(DefaultTrigger)},
     actions : EntryActions,
     entry_action_id : {"a"},
     profile_filter : OptionOf(FilterValues),
     settings : EntrySettings]

InitEntry ==
    /\ definition \in EntryFlows
    /\ \E c \in EntryConfigs : config = Some(c)
    /\ \E e \in {"cli", "web"} : entry = Some(e)
    /\ backends = << >>
    /\ completion = None
    /\ result = None
    /\ pc = "entry-config"
    /\ validations = << >>
    /\ account = None
    /\ metricIdCache = << >>
    /\ resolved = None
    /\ templateIds = << >>
    /\ requests = << >>
    /\ SequenceIdle
    /\ CompileIdle
    /\ RetryIdle
    /\ BrowserIdle
    /\ WebIdle

NextEntry ==
    \/ CheckConfig
    \/ ValidateDefinition
    \/ CliPhase1
    \/ HybridFallback
    \/ WebPhase1
    \/ Phase2

SpecEntry == InitEntry /\ [][NextEntry]_vars

(***************************************************************************)
(* BrowserFlowBuilder.buildFlow.  The steps that drive the page            *)
(* (authenticate, navigateAndCreateFlow, selectTrigger, addAction) may     *)
(* throw; takeScreenshot catches its own failures and returns null then.   *)
(* getActionSequence runs as in SpecSequence.                              *)
(***************************************************************************)
\* The BuildResult buildFlow starts from.
NewBrowserResult ==
    [success |-> FALSE, mode |-> "browser", actionsCreated |-> 0, errors |-> << >>,
     warnings |-> << >>, screenshots |-> << >>, flowId |-> None]

\* The message of an error a page step throws.
PageError == "Timeout 30000ms exceeded."

\* const ss = await this.auth.takeScreenshot(name); if (ss) screenshots.push(ss)
WithScreenshot(res, name, taken) ==
    IF taken THEN [res EXCEPT !.screenshots = Append(@, name)] ELSE res

\* The outer catch block: the error and the screenshot of it.
BrowserCatch(res, taken) ==
    WithScreenshot(
        WithError(res, Msg("Browser automation failed: $", <<Str(PageError)>>)),
        "build-error", taken)

\* A step before the action loop: it goes on to the next step, or throws into
\* the outer catch block, which ends the build.
PageStep(here, next) ==
    /\ pc = here
    /\ \E ok \in BOOLEAN, taken \in BOOLEAN :
          IF ok
          THEN /\ pc' = next
               /\ UNCHANGED result
          ELSE /\ result' = Some(BrowserCatch(result[1], taken))
               /\ pc' = "browser-done"

\* Step 1: this.page = await this.auth.authenticate()
Authenticate ==
    /\ PageStep("browser-auth", "browser-create")
    /\ UNCHANGED <<definition, seqVars, validations, compiled, retryVars, config,
                   account, metricIdCache, resolved, templateIds, requests,
                   entryVars, browserVars, webVars>>

\* Step 2: await this.navigateAndCreateFlow(definition.name)
NavigateAndCreateFlow ==
    /\ PageStep("browser-create", "browser-trigger")
    /\ UNCHANGED <<definition, seqVars, validations, compiled, retryVars, config,
                   account, metricIdCache, resolved, templateIds, requests,
                   entryVars, browserVars, webVars>>

\* Step 3: await this.selectTrigger(definition); when it returns, the call of
\* getActionSequence begins with traverse(definition.entry_action_id).
SelectTrigger ==
    /\ PageStep("browser-trigger", "traverse")
    /\ pending' = IF pc' = "traverse" THEN <<definition.entry_action_id>> ELSE pending
    /\ UNCHANGED <<definition, visited, ordered, calls, validations, compiled,
                   retryVars, config, account, metricIdCache, resolved, templateIds,
                   requests, entryVars, browserVars, webVars>>

\* Mutant: a throw of addAction is not caught in the loop and ends the build.
AddActionOrAbort ==
    /\ pc = "done"
    /\ result # None
    /\ Len(added) < Len(ordered)
    /\ \E ok \in BOOLEAN, taken \in BOOLEAN :
          /\ added' = Append(added, [ref |-> ordered[Len(added) + 1], ok |-> ok])
          /\ IF ok
             THEN /\ result' = Some([result[1] EXCEPT !.actionsCreated = @ + 1])
                  /\ UNCHANGED pc
             ELSE /\ result' = Some(BrowserCatch(result[1], taken))
                  /\ pc' = "browser-done"
    /\ UNCHANGED <<definition, seqVars, validations, compiled, retryVars, config,
                   account, metricIdCache, resolved, templateIds, requests,
                   entryVars, webVars>>

\* One pass of for (const action of actions): addAction, and on a throw the
\* warning for the action and a screenshot.
AddAction ==
    /\ pc = "done"
    /\ result # None
    /\ Len(added) < Len(ordered)
    /\ LET ref == ordered[Len(added) + 1]
           action == definition.actions[ref]
       IN  \E ok \in BOOLEAN, taken \in BOOLEAN :
             /\ added' = Append(added, [ref |-> ref, ok |-> ok])
             /\ result' =
                  IF ok
                  THEN Some([result[1] EXCEPT !.actionsCreated = @ + 1])
                  ELSE Some(WithScreenshot(
                           [result[1] EXCEPT !.warnings =
                               Append(@, Msg("Action $ ($): $",
                                             <<Str(action.id), Str(action.type),
                                               Str(PageError)>>))],
                           <<"fail", action.id>>, taken /\ ~ok))
    /\ UNCHANGED <<definition, pc, seqVars, validations, compiled, retryVars, config,
                   account, metricIdCache, resolved, templateIds, requests,
                   entryVars, webVars>>

\* Mutant: success only when every action was added.
FinishBrowserBuildAllAdded ==
    /\ pc = "done"
    /\ result # None
    /\ Len(added) = Len(ordered)
    /\ \E taken \in BOOLEAN, flowId \in {None, Some("F1")} :
          result' = Some([WithScreenshot(result[1], "flow-complete", taken)
                            EXCEPT !.flowId = flowId,
                                   !.success = result[1].actionsCreated = Len(ordered)
                                                 /\ Len(ordered) > 0])
    /\ pc' = "browser-done"
    /\ UNCHANGED <<definition, seqVars, validations, compiled, retryVars, config,
                   account, metricIdCache, resolved, templateIds, requests,
                   entryVars, browserVars, webVars>>

\* Step 5 and the end: the final screenshot, the flow id when the page URL
\* holds one, and success = actionsCreated > 0.
FinishBrowserBuild ==
    /\ pc = "done"
    /\ result # None
    /\ Len(added) = Len(ordered)
    /\ \E taken \in BOOLEAN, flowId \in {None, Some("F1")} :
          result' = Some([WithScreenshot(result[1], "flow-complete", taken)
                            EXCEPT !.flowId = flowId,
                                   !.success = result[1].actionsCreated > 0])
    /\ pc' = "browser-done"
    /\ UNCHANGED <<definition, seqVars, validations, compiled, retryVars, config,
                   account, metricIdCache, resolved, templateIds, requests,
                   entryVars, browserVars, webVars>>

\* The flows the browser build is studied on, entered at their last action: a
\* single action, an unreachable action, a split whose branches are defined
\* in the other order, a cycle through an ab-split, and two actions of one id
\* (which the validator lets through for this id).
BrowserActions ==
    {<<MkAction("a", [type |-> "send-email", next |-> Undefined])>>,
     <<MkAction("a", [type |-> "send-email", next |-> "b"]),
       MkAction("b", [type |-> "time-delay", next |-> Undefined])>>,
     <<MkAction("b", [type |-> "send-sms", next |-> Undefined]),
       MkAction("c", [type |-> "send-email", next |-> Undefined]),
       MkAction("a", [type |-> "conditional-split", next_if_true |-> "c",
                      next_if_false |-> "b"])>>,
     <<MkAction("a", [type |-> "ab-split", next_variant_a |-> "b",
                      next_variant_b |-> Undefined]),
       MkAction("b", [type |-> "time-delay", next |-> "a"]),
       MkAction("c", [type |-> "send-email", next |-> "a"])>>,
     <<MkAction("constructor", [type |-> "time-delay", next |-> "constructor"]),
       MkAction("constructor", [type |-> "send-email", next |-> Undefined])>>}

InitBrowserBuild ==
    /\ \E as \in BrowserActions :
          definition = [name |-> Some(WelcomeName), trigger |-> Some(DefaultTrigger),
                        actions |-> as, entry_action_id |-> as[Len(as)].id,
                        profile_filter |-> None, settings |-> None]
    /\ result = Some(NewBrowserResult)
    /\ added = << >>
    /\ pc = "browser-auth"
    /\ config = None
    /\ account = None
    /\ metricIdCache = << >>
    /\ resolved = None
    /\ templateIds = << >>
    /\ requests = << >>
    /\ validations = << >>
    /\ SequenceIdle
    /\ CompileIdle
    /\ RetryIdle
    /\ EntryIdle
    /\ WebIdle

NextBrowserBuild ==
    \/ Authenticate
    \/ NavigateAndCreateFlow
    \/ SelectTrigger
    \/ TraverseCall
    \/ AddUnvisited
    \/ AddAction
    \/ FinishBrowserBuild

SpecBrowserBuild == InitBrowserBuild /\ [][NextBrowserBuild]_vars

\* A build by either backend.
InitBackends == InitApiBuild \/ InitBrowserBuild

NextBackends == NextApiBuild \/ NextBrowserBuild

SpecBackends == InitBackends /\ [][NextBackends]_vars

(***************************************************************************)
(* The web server: POST /api/build starts a build in the background and    *)
(* returns its id; GET /api/logs/:buildId opens the SSE stream of a build. *)
(* All builds write to the one logger (getLogger), to which each build     *)
(* adds an SSETransport of its own.  A build runs from one await to the    *)
(* next without interruption; between them the other builds run.           *)
(***************************************************************************)
Builds == {"build-1", "build-2"}

\* process.env as loadConfig reads it: the browser credentials of the server.
WebEnvironments == [email : {Undefined, "me@shop.io"}, password : {Undefined, "secret"}]

\* The body of a POST /api/build request, as far as the route looks at it:
\* where the definition comes from ("file-missing": no such flow file,
\* "file-garbled": JSON.parse throws), the mode, the API key, whether the
\* definition is valid, whether its validation has warnings and whether it
\* has an ab-split.
BuildRequests ==
    [source : {"file-missing", "file-garbled", "definition"}, mode : {"api", "browser"},
     apiKey : {Undefined, "pk_1"}, valid : BOOLEAN, warned : BOOLEAN,
     abSplit : BOOLEAN]

Event(type, b) == [type |-> type, of |-> b]

\* sendSSE(buildId, type, data)
sendSSE(st, b, type) ==
    IF clients[b] = "open" THEN [st EXCEPT ![b] = Append(@, Event(type, b))] ELSE st

RECURSIVE sendEach(_, _, _)
sendEach(st, b, types) ==
    IF types = << >> THEN st
    ELSE sendEach(sendSSE(st, b, Head(types)), b, Tail(types))

\* A record that build b's code writes to the logger: the logger hands it to
\* every transport that is added to it, and SSETransport.log writes it to the
\* client of the transport's own build.
LoggerWrite(st, b) ==
    [t \in Builds |-> IF t \in attached /\ clients[t] = "open"
                      THEN Append(st[t], Event("log", b))
                      ELSE st[t]]

\* app.post('/api/build'): the response with the buildId, and setTimeout.
PostBuild(b) ==
    /\ web[b].stage = "none"
    /\ web' = [web EXCEPT ![b].stage = "queued"]
    /\ UNCHANGED <<attached, clients, streams>>
    /\ UNCHANGED <<definition, pc, seqVars, validations, compiled, retryVars, buildVars,
                   entryVars, browserVars>>

\* app.get('/api/logs/:buildId')
ConnectLogs(b) ==
    /\ web[b].stage # "none"
    /\ clients[b] = "none"
    /\ streams' = [streams EXCEPT ![b] = Append(@, Event("connected", b))]
    /\ clients' = [clients EXCEPT ![b] = "open"]
    /\ UNCHANGED <<web, attached>>
    /\ UNCHANGED <<definition, pc, seqVars, validations, compiled, retryVars, buildVars,
                   entryVars, browserVars>>

\* req.on('close'): sseClients.delete(buildId)
CloseLogs(b) ==
    /\ clients[b] = "open"
    /\ clients' = [clients EXCEPT ![b] = "closed"]
    /\ UNCHANGED <<web, attached, streams>>
    /\ UNCHANGED <<definition, pc, seqVars, validations, compiled, retryVars, buildVars,
                   entryVars, browserVars>>

\* The setTimeout callback, up to the call of buildFlow or to its return.
RunBuild(b) ==
    /\ web[b].stage = "queued"
    /\ \E req \in BuildRequests :
         LET c == [mode |-> req.mode, apiKey |-> req.apiKey,
                   email |-> config[1].email, password |-> config[1].password]
             warnings == IF req.warned THEN <<"log">> ELSE << >>
         IN  IF req.source = "file-missing"
             THEN /\ streams' = sendEach(streams, b, <<"error", "complete">>)
                  /\ web' = [web EXCEPT ![b].stage = "done", ![b].path = "no-file"]
                  /\ UNCHANGED attached
             ELSE IF req.source = "file-garbled"
             THEN /\ streams' = sendEach(streams, b, <<"error", "complete">>)
                  /\ web' = [web EXCEPT ![b].stage = "done", ![b].path = "thrown"]
                  /\ UNCHANGED attached
             ELSE IF validateConfig(c) # << >>
             THEN /\ streams' = sendEach(streams, b, <<"error", "complete">>)
                  /\ web' = [web EXCEPT ![b].stage = "done", ![b].path = "config"]
                  /\ UNCHANGED attached
             ELSE IF ~req.valid
             THEN /\ streams' = sendEach(streams, b, <<"error", "complete">>)
                  /\ web' = [web EXCEPT ![b].stage = "done", ![b].path = "invalid"]
                  /\ UNCHANGED attached
             ELSE /\ attached' = attached \cup {b}
                  /\ IF req.abSplit /\ req.mode = "api"
                     THEN IF ~Truthy(c.email) \/ ~Truthy(c.password)
                          THEN /\ streams' = sendEach(streams, b, warnings \o
                                                      <<"log", "error", "complete">>)
                               /\ web' = [web EXCEPT ![b].stage = "done",
                                                     ![b].path = "ab-split"]
                          ELSE /\ streams' = sendEach(streams, b,
                                                      warnings \o <<"log", "status">>)
                               /\ web' = [web EXCEPT ![b].stage = "phase1"]
                     ELSE /\ streams' = sendEach(streams, b, warnings \o <<"status">>)
                          /\ web' = [web EXCEPT ![b].stage = "phase1"]
    /\ UNCHANGED clients
    /\ UNCHANGED <<definition, pc, seqVars, validations, compiled, retryVars, buildVars,
                   entryVars, browserVars>>

\* While buildFlow or the configurator runs, it writes to the logger.
BuilderLogs(b) ==
    /\ web[b].stage \in {"phase1", "phase2"}
    /\ web[b].lines < MaxLogLines
    /\ streams' = LoggerWrite(streams, b)
    /\ web' = [web EXCEPT ![b].lines = @ + 1]
    /\ UNCHANGED <<attached, clients>>
    /\ UNCHANGED <<definition, pc, seqVars, validations, compiled, retryVars, buildVars,
                   entryVars, browserVars>>

\* buildFlow has returned: phase 2 is started, or the build ends.
AfterPhase1(b) ==
    /\ web[b].stage = "phase1"
    /\ \E needed \in BOOLEAN :
         IF needed /\ Truthy(config[1].email) /\ Truthy(config[1].password)
         THEN /\ streams' = sendSSE(streams, b, "status")
              /\ web' = [web EXCEPT ![b].stage = "phase2"]
              /\ UNCHANGED attached
         ELSE /\ streams' = sendEach(streams, b,
                                     IF needed THEN <<"status", "log", "complete">>
                                     ELSE <<"complete">>)
              /\ attached' = attached \ {b}
              /\ web' = [web EXCEPT ![b].stage = "done", ![b].path = "complete"]
    /\ UNCHANGED clients
    /\ UNCHANGED <<definition, pc, seqVars, validations, compiled, retryVars, buildVars,
                   entryVars, browserVars>>

\* The configurator has returned or thrown: one or two 'log' events, then the
\* transport is removed and the result sent.
AfterPhase2(b) ==
    /\ web[b].stage = "phase2"
    /\ \E events \in {<<"log">>, <<"log", "log">>} :
         streams' = sendEach(streams, b, events \o <<"complete">>)
    /\ attached' = attached \ {b}
    /\ web' = [web EXCEPT ![b].stage = "done", ![b].path = "complete"]
    /\ UNCHANGED clients
    /\ UNCHANGED <<definition, pc, seqVars, validations, compiled, retryVars, buildVars,
                   entryVars, browserVars>>

InitWeb ==
    /\ web = [b \in Builds |-> [stage |-> "none", path |-> "none", lines |-> 0]]
    /\ attached = {}
    /\ clients = [b \in Builds |-> "none"]
    /\ streams = [b \in Builds |-> << >>]
    /\ \E env \in WebEnvironments : config = Some(env)
    /\ account = None
    /\ metricIdCache = << >>
    /\ resolved = None
    /\ templateIds = << >>
    /\ requests = << >>
    /\ result = None
    /\ definition = None
    /\ pc = "web"
    /\ validations = << >>
    /\ SequenceIdle
    /\ CompileIdle
    /\ RetryIdle
    /\ EntryIdle
    /\ BrowserIdle

NextWeb ==
    \E b \in Builds :
      \/ PostBuild(b)
      \/ ConnectLogs(b)
      \/ CloseLogs(b)
      \/ RunBuild(b)
      \/ BuilderLogs(b)
      \/ AfterPhase1(b)
      \/ AfterPhase2(b)

SpecWeb == InitWeb /\ [][NextWeb]_vars

(***************************************************************************)
(* The flow graph, read off the definition alone (types.ts): the links an  *)
(* action carries, and the ids reachable from entry_action_id through      *)
(* them, a link being resolved by the id of the action it names.           *)
(***************************************************************************)
UniqueIds(actions) ==
    \A i, j \in DOMAIN actions : i # j => actions[i].id # actions[j].id

LinkFields(action) ==
    CASE action.type \in LinearTypes -> {"next"}
      [] action.type = "conditional-split" -> {"next_if_true", "next_if_false"}
      [] action.type = "ab-split" -> {"next_variant_a", "next_variant_b"}
      [] OTHER -> {}

LinkValue(action, fld) ==
    CASE fld = "next" -> action.next
      [] fld = "next_if_true" -> action.next_if_true
      [] fld = "next_if_false" -> action.next_if_false
      [] fld = "next_variant_a" -> action.next_variant_a
      [] fld = "next_variant_b" -> action.next_variant_b

LinkedIds(action) ==
    {LinkValue(action, fld) : fld \in LinkFields(action)} \ {Undefined}

RECURSIVE ReachClosure(_, _)
ReachClosure(actions, R) ==
    LET more == UNION {LinkedIds(actions[i]) :
                         i \in {j \in DOMAIN actions :
                                  /\ actions[j].id \in R
                                  /\ \A k \in DOMAIN actions :
                                       actions[k].id = actions[j].id => k <= j}}
    IN  IF more \subseteq R THEN R ELSE ReachClosure(actions, R \cup more)

ReachableIds(d) == ReachClosure(d.actions, {d.entry_action_id} \ {Undefined})

UnreachableRefs(d) == {i \in DOMAIN d.actions : d.actions[i].id \notin ReachableIds(d)}

Occurrences(seq, x) == Cardinality({k \in DOMAIN seq : seq[k] = x})

IdsOf(d, refs) == [k \in DOMAIN refs |-> d.actions[refs[k]].id]

\* entry A, A.next = B, B.next = A
IsTwoCycle(d) ==
    /\ Len(d.actions) = 2
    /\ d.actions[1].type \in LinearTypes /\ d.actions[2].type \in LinearTypes
    /\ d.actions[1].id # d.actions[2].id
    /\ d.entry_action_id = d.actions[1].id
    /\ d.actions[1].next = d.actions[2].id
    /\ d.actions[2].next = d.actions[1].id

\* The walk ends: it never makes more traverse calls than the entry call and
\* one call per link of each action, and it is never stuck before its return.
SequenceTerminates ==
    /\ calls <= 1 + 2 * Len(definition.actions)
    /\ pc = "traverse" => ENABLED NextSequence

EveryActionOnce ==
    /\ Len(ordered) = Len(definition.actions)
    /\ \A i \in DOMAIN definition.actions : Occurrences(ordered, i) = 1
    /\ \A id \in Range(IdsOf(definition, ordered)) \cup {a.id : a \in Range(definition.actions)} :
         Occurrences(IdsOf(definition, ordered), id)
           = Cardinality({i \in DOMAIN definition.actions : definition.actions[i].id = id})

(***************************************************************************)
(* C1 as stated: for every flow getActionSequence terminates and returns   *)
(* every action of definition.actions exactly once (the output length is   *)
(* the number of actions, the output ids a permutation of the defined      *)
(* ids); for entry A, A.next = B, B.next = A it returns [A, B].            *)
(***************************************************************************)
C1_AsStated ==
    /\ SequenceTerminates
    /\ pc = "done" => EveryActionOnce
    /\ (pc = "done" /\ IsTwoCycle(definition)) => ordered = <<1, 2>>

(***************************************************************************)
(* C2: every action not reachable from entry_action_id by following links  *)
(* appears in the output of getActionSequence after all reachable actions, *)
(* and the unreachable actions appear in their order in definition.actions.*)
(***************************************************************************)
C2_UnreachableLastInOrder ==
    pc = "done" =>
      LET U == UnreachableRefs(definition)
          At(i) == CHOOSE k \in DOMAIN ordered : ordered[k] = i
      IN  /\ \A i \in U : Occurrences(ordered, i) = 1
          /\ \A i \in U : \A k \in DOMAIN ordered : ordered[k] \notin U => k < At(i)
          /\ \A i, j \in U : i < j => At(i) < At(j)

\* Two unreachable actions defined before the entry action come after it.
C2_Witness ==
    /\ pc = "done"
    /\ Len(definition.actions) = 3
    /\ UniqueIds(definition.actions)
    /\ UnreachableRefs(definition) = {1, 2}
    /\ ordered = <<3, 1, 2>>

(***************************************************************************)
(* Reading a ValidationResult.                                             *)
(***************************************************************************)
(***************************************************************************)
(* C3: for every send-email and send-sms action compiled for the REST      *)
(* target, smart_sending_enabled is the action's smart_sending when        *)
(* defined, else the flow settings' smart_sending when defined, else true; *)
(* add_tracking_params is the action's utm_tracking when defined, else the *)
(* flow settings' utm_tracking when defined, else false; an explicit       *)
(* per-action false is never overridden by a flow-level true.              *)
(***************************************************************************)
C3_SettingPrecedence ==
    (pc = "compiled" /\ compiled[1].kind = "returned") =>
      \A i \in DOMAIN definition.actions :
        LET a == definition.actions[i]
            m == compiled[1].actions[i].data.message
            s == definition.settings
            FlowHas(field) == s # None /\ s[1][field] # None
            Precedence(field, got, fallback) ==
              /\ a[field] # None => got = a[field][1]
              /\ (a[field] = None /\ FlowHas(field)) => got = s[1][field][1]
              /\ (a[field] = None /\ ~FlowHas(field)) => got = fallback
        IN  a.type \in {"send-email", "send-sms"} =>
              /\ Precedence("smart_sending", m.smart_sending_enabled, TRUE)
              /\ Precedence("utm_tracking", m.add_tracking_params, FALSE)

\* A send-sms whose own smart_sending is false and whose utm_tracking is
\* inherited, compiled under flow settings that turn both on.
C3_Witness ==
    /\ pc = "compiled"
    /\ compiled[1].kind = "returned"
    /\ Len(definition.actions) = 2
    /\ definition.actions[2].type = "send-sms"
    /\ definition.actions[2].smart_sending = Some(FALSE)
    /\ definition.actions[2].utm_tracking = None
    /\ definition.settings # None
    /\ definition.settings[1].smart_sending = Some(TRUE)
    /\ definition.settings[1].utm_tracking = Some(TRUE)
    /\ compiled[1].actions[2].data.message.smart_sending_enabled = FALSE
    /\ compiled[1].actions[2].data.message.add_tracking_params = TRUE

Validated == Len(validations) >= 1
Result == validations[1]

Contains(msg, value) == \E k \in DOMAIN msg.args : msg.args[k] = Str(value)

WithText(msgs, text) == SelectSeq(msgs, LAMBDA m : m.text = text)

LinkErrorText == "Action $ has $=$ which doesn't exist."
DuplicateErrorText == "Duplicate action ID: $ appears $ times."
ReentryModeText ==
    "settings.reentry.mode must be one of: once, multiple, time-based. Got: $."
ReentryValueText == "settings.reentry with mode time-based requires a positive value."
ReentryUnitText == "settings.reentry.unit must be one of: hours, days, weeks. Got: $."
FilterErrorText == "$ must have a condition_groups array."
FilterWarningText == "$ has empty condition_groups - it will have no effect."

BrokenLinks(d) ==
    {x \in UNION {{<<i, fld>> : fld \in LinkFields(d.actions[i])} : i \in DOMAIN d.actions} :
        /\ LinkValue(d.actions[x[1]], x[2]) # Undefined
        /\ \A a \in Range(d.actions) : a.id # LinkValue(d.actions[x[1]], x[2])}

C5_BrokenLinksReported ==
    Validated =>
      LET d == definition
          broken == BrokenLinks(d)
          linkErrors == WithText(Result.errors, LinkErrorText)
          ErrorOf(x) == Msg(LinkErrorText,
                            <<Str(d.actions[x[1]].id), Str(x[2]),
                              Str(LinkValue(d.actions[x[1]], x[2]))>>)
      IN  /\ broken # {} => ~Result.valid
          /\ \A x \in broken :
               /\ Contains(ErrorOf(x), d.actions[x[1]].id)
               /\ Contains(ErrorOf(x), LinkValue(d.actions[x[1]], x[2]))
               /\ Occurrences(Result.errors, ErrorOf(x))
                    = Cardinality({y \in broken : ErrorOf(y) = ErrorOf(x)})
          /\ Len(linkErrors) = Cardinality(broken)

\* A validated conditional split both of whose branches name a missing id.
C5_Witness ==
    /\ Validated
    /\ \E i \in DOMAIN definition.actions :
         /\ definition.actions[i].type = "conditional-split"
         /\ {<<i, "next_if_true">>, <<i, "next_if_false">>} \subseteq BrokenLinks(definition)
    /\ Len(WithText(Result.errors, LinkErrorText)) = 2
    /\ ~Result.valid

(***************************************************************************)
(* C6: valid is true exactly when errors is empty, whatever the warnings;  *)
(* a profile_filter or metric trigger_filter whose condition_groups is an  *)
(* empty array adds a warning and no error (the errors are those of the    *)
(* same flow without the filter), so a flow with no other defect is valid; *)
(* a filter whose condition_groups is missing or no array adds an error.   *)
(***************************************************************************)
IsEmptyArray(filter) ==
    filter.condition_groups.kind = "array" /\ filter.condition_groups.items = << >>

WithoutProfileFilter(d) == [d EXCEPT !.profile_filter = None]
WithoutTriggerFilter(d) ==
    [d EXCEPT !.trigger = Some([d.trigger[1] EXCEPT !.trigger_filter = None])]

C6_EmptyGroupsOnlyWarn ==
    Validated =>
      LET d == definition
          pfError == Msg(FilterErrorText, <<Str("profile_filter")>>)
          pfWarning == Msg(FilterWarningText, <<Str("profile_filter")>>)
          tfError == Msg(FilterErrorText, <<Str("trigger_filter")>>)
          tfWarning == Msg(FilterWarningText, <<Str("trigger_filter")>>)
      IN  /\ Result.valid <=> (Result.errors = << >>)
          /\ d.profile_filter # None =>
               IF IsEmptyArray(d.profile_filter[1])
               THEN /\ Occurrences(Result.warnings, pfWarning) = 1
                    /\ Result.errors = validateFlowDefinition(WithoutProfileFilter(d)).errors
                    /\ Result.valid = validateFlowDefinition(WithoutProfileFilter(d)).valid
               ELSE d.profile_filter[1].condition_groups.kind # "array"
                      => Occurrences(Result.errors, pfError) = 1 /\ ~Result.valid
          /\ HasTriggerFilter(d) =>
               IF IsEmptyArray(d.trigger[1].trigger_filter[1])
               THEN /\ Occurrences(Result.warnings, tfWarning) = 1
                    /\ Result.errors = validateFlowDefinition(WithoutTriggerFilter(d)).errors
                    /\ Result.valid = validateFlowDefinition(WithoutTriggerFilter(d)).valid
               ELSE d.trigger[1].trigger_filter[1].condition_groups.kind # "array"
                      => Occurrences(Result.errors, tfError) = 1 /\ ~Result.valid

\* A flow whose only defects are its two empty condition_groups arrays is valid.
C6_Witness ==
    /\ Validated
    /\ definition.profile_filter # None
    /\ IsEmptyArray(definition.profile_filter[1])
    /\ HasTriggerFilter(definition)
    /\ IsEmptyArray(definition.trigger[1].trigger_filter[1])
    /\ Result.valid
    /\ Len(Result.warnings) = 2

(***************************************************************************)
(* C7: if two or more actions share an id, the flow is invalid and, for    *)
(* each duplicated id, exactly one error names the id and the number of    *)
(* times it occurs; an id that occurs once produces no such error.         *)
(***************************************************************************)
TimesUsed(d, id) == Cardinality({i \in DOMAIN d.actions : d.actions[i].id = id})

C7_DuplicatesReported ==
    Validated =>
      LET d == definition
          dupErrors == WithText(Result.errors, DuplicateErrorText)
      IN  /\ ~UniqueIds(d.actions) => ~Result.valid
          /\ \A a \in Range(d.actions) :
               IF TimesUsed(d, a.id) >= 2
               THEN Occurrences(Result.errors,
                                Msg(DuplicateErrorText,
                                    <<Str(a.id), Num(TimesUsed(d, a.id))>>)) = 1
               ELSE \A k \in DOMAIN dupErrors : ~Contains(dupErrors[k], a.id)

(***************************************************************************)
(* C8: a flow with an action unreachable from entry_action_id is accepted  *)
(* (valid stays the emptiness of errors) but flagged: the validator        *)
(* reports each unreachable action in its warnings.                        *)
(***************************************************************************)
C8_UnreachableFlagged ==
    Validated =>
      /\ Result.valid <=> (Result.errors = << >>)
      /\ \A i \in UnreachableRefs(definition) :
           \E k \in DOMAIN Result.warnings :
             Contains(Result.warnings[k], definition.actions[i].id)

(***************************************************************************)
(* C9: a settings.reentry whose mode is not once, multiple or time-based   *)
(* produces an error; mode time-based produces an error when value is      *)
(* missing or not positive, and an error when unit is missing or not one   *)
(* of hours, days, weeks; once and multiple never produce a re-entry       *)
(* error, whatever value and unit they carry.                              *)
(***************************************************************************)
ReentryErrors(errors) ==
    SelectSeq(errors, LAMBDA m : m.text \in {ReentryModeText, ReentryValueText, ReentryUnitText})

C9_ReentryPolicyValidated ==
    (Validated /\ definition.settings # None /\ definition.settings[1].reentry # None) =>
      LET r == definition.settings[1].reentry[1]
          errs == ReentryErrors(Result.errors)
          badValue == r.value = None \/ r.value[1] <= 0
          badUnit == r.unit \notin {"hours", "days", "weeks"}
      IN  CASE r.mode \in {"once", "multiple"} -> errs = << >>
            [] r.mode = "time-based" ->
                 /\ Len(WithText(errs, ReentryModeText)) = 0
                 /\ Len(WithText(errs, ReentryValueText)) = (IF badValue THEN 1 ELSE 0)
                 /\ Len(WithText(errs, ReentryUnitText)) = (IF badUnit THEN 1 ELSE 0)
                 /\ (badValue \/ badUnit) => ~Result.valid
            [] OTHER ->
                 /\ Len(WithText(errs, ReentryModeText)) = 1
                 /\ ~Result.valid

\* A validated time-based policy with a negative value and an unknown unit,
\* and a validated once policy that carries the same value and unit.
C9_Witness ==
    /\ Validated
    /\ definition.settings # None
    /\ definition.settings[1].reentry # None
    /\ definition.settings[1].reentry[1] =
         [mode |-> "time-based", value |-> Some(-1), unit |-> "minutes"]
    /\ Len(ReentryErrors(Result.errors)) = 2

(***************************************************************************)
(* C10: withRetry called with maxAttempts = n >= 1 on an operation that    *)
(* fails on every invocation with a retryable error (retryableErrors       *)
(* unset, or set and matching the error) invokes the operation exactly n   *)
(* times and then throws.                                                  *)
(***************************************************************************)
Retryable(o, error) ==
    \/ o.retryableErrors = None
    \/ \E k \in DOMAIN o.retryableErrors[1] :
          \/ Includes(error.message, o.retryableErrors[1][k])
          \/ Includes(error.name, o.retryableErrors[1][k])

AlwaysFailedRetryably ==
    \A k \in DOMAIN invocations :
      /\ invocations[k].kind = "rejected"
      /\ Retryable(opts, ToError(invocations[k].thrown))

C10_InvokedMaxAttemptsTimes ==
    (opts.maxAttempts >= 1 /\ AlwaysFailedRetryably) =>
      /\ Len(invocations) <= opts.maxAttempts
      /\ pc # "retry-done" => ENABLED NextRetry
      /\ pc = "retry-done" =>
            /\ Len(invocations) = opts.maxAttempts
            /\ outcome # None
            /\ outcome[1].kind = "threw"

\* Three attempts allowed, three rate-limit failures matching the pattern, a throw.
C10_Witness ==
    /\ pc = "retry-done"
    /\ opts.maxAttempts = 3
    /\ opts.retryableErrors = Some(<<RateLimitPattern>>)
    /\ Len(invocations) = 3
    /\ AlwaysFailedRetryably
    /\ outcome # None
    /\ outcome[1].kind = "threw"

(***************************************************************************)
(* C11: in withRetry, for every k with 1 <= k < maxAttempts, the delay     *)
(* slept between the failure of attempt k and the start of attempt k+1 is  *)
(* min(baseDelay * backoffFactor^(k-1), maxDelay); the delay never exceeds *)
(* maxDelay, and no delay is slept after the last attempt.                 *)
(***************************************************************************)
C11_BackoffDelays ==
    /\ \A k \in DOMAIN slept :
          LET grown == opts.baseDelay * Pow(opts.backoffFactor, k - 1)
          IN  /\ k < opts.maxAttempts
              /\ k <= Len(invocations)
              /\ invocations[k].kind = "rejected"
              /\ slept[k] = IF grown <= opts.maxDelay THEN grown ELSE opts.maxDelay
              /\ slept[k] <= opts.maxDelay
    /\ \A k \in DOMAIN invocations : k > 1 => Len(slept) >= k - 1
    /\ Len(slept) <= Len(invocations)
    /\ (pc = "retry-done" /\ invocations # << >>) => Len(slept) = Len(invocations) - 1

\* Three failed attempts under baseDelay 1000, backoffFactor 3, maxDelay 2500:
\* the second delay is capped.
C11_Witness ==
    /\ pc = "retry-done"
    /\ opts.maxAttempts = 3
    /\ Len(invocations) = 3
    /\ slept = <<1000, 2500>>

(***************************************************************************)
(* C12 as stated: when retryableErrors is supplied and the error thrown by *)
(* the operation matches none of its patterns (neither the message nor the *)
(* name contains a pattern), withRetry aborts immediately: that invocation *)
(* is the last, no delay is slept after it, and that error is thrown; on   *)
(* the first attempt the operation is invoked exactly once in total.       *)
(***************************************************************************)
MatchesNone(o, error) ==
    \A k \in DOMAIN o.retryableErrors[1] :
      /\ ~Includes(error.message, o.retryableErrors[1][k])
      /\ ~Includes(error.name, o.retryableErrors[1][k])

\* What Error the caller sees for a thrown value.
AsError(thrown) ==
    IF thrown.kind = "Error" THEN thrown
    ELSE [kind |-> "Error", name |-> ErrorName, message |-> thrown.text]

AbortedAt(k) ==
    /\ k = Len(invocations)
    /\ pc = "retry-done"
    /\ Len(slept) = k - 1
    /\ outcome = Some([kind |-> "threw", error |-> Some(AsError(invocations[k].thrown))])

Exhausted ==
    /\ pc = "retry-done"
    /\ opts.maxAttempts >= 1
    /\ Len(invocations) = opts.maxAttempts
    /\ invocations[Len(invocations)].kind = "rejected"

LastFailure == AsError(invocations[Len(invocations)].thrown)

SevenWeekdays ==
    {"monday", "tuesday", "wednesday", "thursday", "friday", "saturday", "sunday"}

C14_WeekdaysOnlyForDays ==
    (pc = "compiled" /\ compiled[1].kind = "returned") =>
      \A i \in DOMAIN definition.actions :
        LET a == definition.actions[i]
            data == compiled[1].actions[i].data
        IN  a.type = "time-delay" =>
              /\ data.unit = a.delay_unit
              /\ data.value = a.delay_value
              /\ a.delay_unit = "days" =>
                    /\ data.delay_until_weekdays # None
                    /\ Len(data.delay_until_weekdays[1]) = 7
                    /\ Range(data.delay_until_weekdays[1]) = SevenWeekdays
              /\ a.delay_unit # "days" => data.delay_until_weekdays = None

\* A delay of 3 weeks and a delay of 1 day compiled in one flow.
C14_Witness ==
    /\ pc = "compiled"
    /\ compiled[1].kind = "returned"
    /\ Len(definition.actions) = 2
    /\ definition.actions[1].type = "time-delay"
    /\ definition.actions[1].delay_unit = "weeks"
    /\ definition.actions[1].delay_value = 3
    /\ definition.actions[2].type = "time-delay"
    /\ definition.actions[2].delay_unit = "days"
    /\ compiled[1].actions[1].data.delay_until_weekdays = None
    /\ compiled[1].actions[1].data.value = 3
    /\ compiled[1].actions[2].data.delay_until_weekdays # None

(***************************************************************************)
(* C16: compiling a conditional-split for the REST target never fails,     *)
(* whatever its condition_type: has-opened-email, has-clicked-email and    *)
(* has-received-email compile to the fixed placeholder condition; a custom *)
(* condition compiles to the raw filter object given in                    *)
(* condition_config.profile_filter, unchanged; every unknown               *)
(* condition_type compiles to the same placeholder.                        *)
(***************************************************************************)
Placeholder ==
    [condition_groups |->
        <<[conditions |->
            <<[type |-> "profile-marketing-consent",
               consent |-> [channel |-> "email",
                            can_receive_marketing |-> TRUE,
                            consent_status |-> [subscription |-> "subscribed",
                                                filters |-> Null]]]>>]>>]

KnownConditionTypes ==
    {"has-opened-email", "has-clicked-email", "has-received-email",
     "profile-marketing-consent", "custom"}

C16_ConditionFilterCompiled ==
    pc = "compiled" =>
      /\ (\A i \in DOMAIN definition.actions :
            definition.actions[i].type \in {"conditional-split", "time-delay",
                                            "send-email", "send-sms"})
           => compiled[1].kind = "returned"
      /\ compiled[1].kind = "returned" =>
           \A i \in DOMAIN definition.actions :
             LET a == definition.actions[i]
                 got == compiled[1].actions[i].data.profile_filter
             IN  a.type = "conditional-split" =>
                   /\ a.condition_type \in {"has-opened-email", "has-clicked-email",
                                            "has-received-email"} => got = Placeholder
                   /\ a.condition_type \notin KnownConditionTypes => got = Placeholder
                   /\ (/\ a.condition_type = "custom"
                       /\ a.condition_config # None
                       /\ a.condition_config[1].profile_filter # None)
                        => got = a.condition_config[1].profile_filter[1]

\* A custom split with a raw filter and a split of an unknown kind in one flow.
C16_Witness ==
    /\ pc = "compiled"
    /\ compiled[1].kind = "returned"
    /\ Len(definition.actions) = 2
    /\ definition.actions[1].type = "conditional-split"
    /\ definition.actions[1].condition_type = "custom"
    /\ definition.actions[1].condition_config # None
    /\ definition.actions[1].condition_config[1].profile_filter # None
    /\ compiled[1].actions[1].data.profile_filter = [condition_groups |-> <<"group">>]
    /\ definition.actions[2].type = "conditional-split"
    /\ definition.actions[2].condition_type = "has-purchased"
    /\ compiled[1].actions[2].data.profile_filter = Placeholder

(***************************************************************************)
(* The API build.                                                          *)
(***************************************************************************)
HasABSplit == \E i \in DOMAIN definition.actions : definition.actions[i].type = "ab-split"

\* The create-flow requests of the build: the invocations of the operation
\* handed to withRetry.
CreateFlowRequests == Len(invocations)

\* C15 (REST half): once the API build of a flow with an ab-split action has
\* compiled its actions, the compilation threw an error that names the id of
\* an ab-split action, and no create-flow request was or will be sent.
C15_AsStated ==
    (HasABSplit /\ compiled # None) =>
      /\ compiled[1].kind = "threw"
      /\ \E i \in DOMAIN definition.actions :
            /\ definition.actions[i].type = "ab-split"
            /\ Str(definition.actions[i].id) \in Range(compiled[1].error.args)
      /\ CreateFlowRequests = 0

NotFoundText == "Could not resolve trigger. Metric/list $ not found in your Klaviyo account."
ConnectText == "Failed to connect to Klaviyo API. Check your API key."

\* The account holds no metric (no list) the trigger's name can stand for: no
\* metric name holds it or is held by it when case is ignored, no list has it.
NotInAccount ==
    LET t == definition.trigger[1]
    IN  \/ /\ t.type = "metric"
           /\ t.metric_id = Undefined
           /\ \A k \in DOMAIN account.metrics :
                LET have == ToLowerCase(Chars(account.metrics[k].name))
                    want == ToLowerCase(Chars(t.metric_name))
                IN  ~Includes(have, want) /\ ~Includes(want, have)
        \/ /\ t.type = "list"
           /\ t.list_id = Undefined
           /\ \A k \in DOMAIN account.lists : account.lists[k].name # t.list_name

TriggerName ==
    LET t == definition.trigger[1]
    IN  IF t.type = "metric" THEN t.metric_name ELSE t.list_name

C18_AsStated ==
    /\ CreateFlowRequests <= 1
    /\ (pc = "api-done" /\ compiled # None /\ compiled[1].kind = "returned")
         => CreateFlowRequests = 1

(***************************************************************************)
(* The build entry points.                                                 *)
(***************************************************************************)
\* The buildFlow calls made so far, phase 2 left out.
FlowBuilds == SelectSeq(backends, LAMBDA b : b.backend \in {"api", "browser"})

\* Nothing but the validation keeps the entry point from its buildFlow call.
ModeDispatches ==
    IF entry = Some("cli")
    THEN config[1].mode \in {"api", "browser", "hybrid"}
    ELSE ~(/\ \E i \in DOMAIN definition.actions : definition.actions[i].type = "ab-split"
           /\ config[1].mode = "api"
           /\ (config[1].email = Undefined \/ config[1].password = Undefined))

\* C19: at either entry point, a definition validateFlowDefinition found not
\* valid ends the run there, with no backend called, and a backend is only
\* ever called on a definition found valid; a definition found valid goes on
\* to phase 1 whatever its warnings, and ends with a backend called whenever
\* the mode leads to one.
C19_InvalidStopsValidProceeds ==
    /\ (Validated /\ ~validations[1].valid) =>
         /\ backends = << >>
         /\ pc = "entry-done"
         /\ completion = Some([success |-> FALSE])
    /\ backends # << >> => (Validated /\ validations[1].valid)
    /\ (Validated /\ validations[1].valid) =>
         /\ pc \in {"entry-phase1", "entry-fallback", "entry-phase2", "entry-done"}
         /\ (pc = "entry-done" /\ ModeDispatches) => FlowBuilds # << >>

\* The web route was asked for a hybrid build of a flow whose only email links
\* to an action that does not exist; all credentials are set.
C19_Witness ==
    /\ pc = "entry-done"
    /\ entry = Some("web")
    /\ config[1] = [mode |-> "hybrid", apiKey |-> "pk_1", email |-> "me@shop.io",
                    password |-> "secret"]
    /\ Len(definition.actions) = 1
    /\ definition.actions[1].next = "b"
    /\ Validated
    /\ ~validations[1].valid
    /\ Len(validations[1].errors) = 1
    /\ backends = << >>
    /\ completion = Some([success |-> FALSE])

\* C20: a hybrid run that is over and had a valid definition built a flow with
\* an ab-split by one browser build and no API build, and a flow without one
\* by an API build first, followed by a browser build exactly when the API
\* build failed (CLI) or by nothing (no browser build after a success).
C20_AsStated ==
    (/\ pc = "entry-done"
     /\ config[1].mode = "hybrid"
     /\ Validated
     /\ validations[1].valid) =>
       IF \E i \in DOMAIN definition.actions : definition.actions[i].type = "ab-split"
       THEN /\ Len(FlowBuilds) = 1
            /\ FlowBuilds[1].backend = "browser"
       ELSE /\ Len(FlowBuilds) >= 1
            /\ FlowBuilds[1].backend = "api"
            /\ \A k \in 2..Len(FlowBuilds) :
                 /\ FlowBuilds[k].backend = "browser"
                 /\ ~FlowBuilds[1].success

(***************************************************************************)
(* The reference walk: a recursive depth-first search whose children are   *)
(* the links of an action in the order linear next; split true, false;     *)
(* A/B variant a, variant b.  An id stands for the action the map holds    *)
(* under it (the last one defined with it).                                *)
(***************************************************************************)
OrderedLinks(action) ==
    CASE action.type \in LinearTypes -> <<"next">>
      [] action.type = "conditional-split" -> <<"next_if_true", "next_if_false">>
      [] action.type = "ab-split" -> <<"next_variant_a", "next_variant_b">>
      [] OTHER -> << >>

Holder(actions, id) ==
    LET hits == {i \in DOMAIN actions : actions[i].id = id}
    IN  IF hits = {} THEN 0 ELSE Max(hits)

\* The preorder of the walk over the ids, one after the other, with the set
\* of ids seen before it, and the ids seen after it.
RECURSIVE Preorder(_, _, _)
Preorder(actions, ids, seen) ==
    IF ids = << >> THEN [out |-> << >>, seen |-> seen]
    ELSE LET id == Head(ids)
             ref == Holder(actions, id)
         IN  IF id = Undefined \/ id \in seen
             THEN Preorder(actions, Tail(ids), seen)
             ELSE IF ref = 0
             THEN Preorder(actions, Tail(ids), seen \cup {id})
             ELSE LET links == OrderedLinks(actions[ref])
                      below == Preorder(actions,
                                        [k \in DOMAIN links |->
                                           LinkValue(actions[ref], links[k])],
                                        seen \cup {id})
                      rest == Preorder(actions, Tail(ids), below.seen)
                  IN  [out |-> <<ref>> \o below.out \o rest.out, seen |-> rest.seen]

\* The actions a walk from id meets when the ids of `avoid` are already seen.
RECURSIVE FreshClosure(_, _, _)
FreshClosure(actions, R, avoid) ==
    LET more == UNION {LinkedIds(actions[Holder(actions, id)]) :
                         id \in {x \in R : Holder(actions, x) # 0}} \ avoid
    IN  IF more \subseteq R THEN R ELSE FreshClosure(actions, R \cup more, avoid)

FreshFrom(actions, id, avoid) ==
    IF id = Undefined \/ id \in avoid THEN {}
    ELSE FreshClosure(actions, {id}, avoid)

Position(ref) == CHOOSE k \in DOMAIN ordered : ordered[k] = ref

(***************************************************************************)
(* C21: the output of getActionSequence, over the reachable actions, is    *)
(* the preorder of the reference depth-first walk from entry_action_id;    *)
(* and behind every split in it, each action the walk can still reach      *)
(* through the first branch (true, variant a) comes before each action it  *)
(* can then only reach through the second (false, variant b).              *)
(***************************************************************************)
C21_PreorderOfReferenceWalk ==
    pc = "done" =>
      LET actions == definition.actions
          walk == Preorder(actions, <<definition.entry_action_id>>, {}).out
      IN  /\ SubSeq(ordered, 1, Len(walk)) = walk
          /\ \A k \in (Len(walk) + 1)..Len(ordered) :
               ordered[k] \in UnreachableRefs(definition)
                 \/ Holder(actions, actions[ordered[k]].id) # ordered[k]
          /\ \A p \in 1..Len(walk) :
               LET a == actions[walk[p]]
                   links == OrderedLinks(a)
                   before == {actions[walk[q]].id : q \in 1..p}
                   first == FreshFrom(actions, LinkValue(a, links[1]), before)
                   second == FreshFrom(actions, LinkValue(a, links[2]),
                                       before \cup first)
               IN  Len(links) = 2 =>
                     \A x \in first, y \in second :
                       (Holder(actions, x) # 0 /\ Holder(actions, y) # 0) =>
                         Position(Holder(actions, x)) < Position(Holder(actions, y))

\* The entry action is a split whose first branch leads to the action defined
\* last and whose second branch leads to the action defined second.
C21_Witness ==
    /\ pc = "done"
    /\ Len(definition.actions) = 3
    /\ UniqueIds(definition.actions)
    /\ definition.actions[1].type = "conditional-split"
    /\ definition.entry_action_id = definition.actions[1].id
    /\ definition.actions[1].next_if_true = definition.actions[3].id
    /\ definition.actions[1].next_if_false = definition.actions[2].id
    /\ definition.actions[3].next = Undefined
    /\ definition.actions[2].next = Undefined
    /\ ordered = <<1, 3, 2>>

PlaceholderKinds == {"has-opened-email", "has-clicked-email", "has-received-email"}

\* The split is compiled to the placeholder: its kind is metric-based or unknown.
ToPlaceholder(a) ==
    /\ a.type = "conditional-split"
    /\ a.condition_type \notin {"profile-marketing-consent", "custom"}

(***************************************************************************)
(* C22: when an API build that compiled its actions is over, the warnings  *)
(* of its BuildResult hold, for every split compiled to the placeholder, a *)
(* warning that names the split (its id or its label); and the build       *)
(* succeeded if its create-flow call did.                                  *)
(***************************************************************************)
C22_AsStated ==
    (pc = "api-done" /\ compiled # None /\ compiled[1].kind = "returned") =>
      /\ \A i \in DOMAIN definition.actions :
           LET a == definition.actions[i]
           IN  ToPlaceholder(a) =>
                 \E k \in DOMAIN result[1].warnings :
                   \/ Str(a.id) \in Range(result[1].warnings[k].args)
                   \/ Str(a.condition_label) \in Range(result[1].warnings[k].args)
      /\ (outcome # None /\ outcome[1].kind = "returned") => result[1].success

\* The requests for the full metric listing sent so far.
MetricListings == Cardinality({k \in DOMAIN requests : requests[k] = "GET /metrics/"})

(***************************************************************************)
(* C23: the metric listing is fetched at most once, already within one     *)
(* build of a fresh process, and an entry of the lookup table keeps its    *)
(* place and its id.                                                       *)
(***************************************************************************)
C23_AsStated ==
    /\ MetricListings <= 1
    /\ metricIdCache # << >> => metricIdCache = account.metrics

(***************************************************************************)
(* The two backends.                                                       *)
(***************************************************************************)
IsBrowserBuild == result # None /\ result[1].mode = "browser"
IsApiBuild == result # None /\ result[1].mode = "api"

\* The warnings of the result that name the value first.
WarningsOn(value) ==
    {k \in DOMAIN result[1].warnings :
        /\ Len(result[1].warnings[k].args) >= 1
        /\ result[1].warnings[k].args[1] = Str(value)}

FailedAdds == {k \in DOMAIN added : ~added[k].ok}

\* The emails with content for which no template id was stored.
TemplateFailures ==
    {i \in DOMAIN definition.actions :
        /\ definition.actions[i].type = "send-email"
        /\ definition.actions[i].content # None
        /\ definition.actions[i].id \notin DOMAIN templateIds}

ConnectionFailed == Msg(ConnectText, << >>) \in Range(result[1].errors)
TriggerUnresolved ==
    \E k \in DOMAIN result[1].errors : result[1].errors[k].text = NotFoundText
CompileThrew == compiled # None /\ compiled[1].kind = "threw"
SubmitThrew == outcome # None /\ outcome[1].kind = "threw"
RequestRejected == \E k \in DOMAIN invocations : invocations[k].kind = "rejected"

\* The browser half and the template half of C24.
PerActionFailures ==
    /\ IsBrowserBuild =>
         /\ \A i \in DOMAIN definition.actions :
              Cardinality(WarningsOn(definition.actions[i].id))
                = Cardinality({k \in FailedAdds :
                                 definition.actions[added[k].ref].id
                                   = definition.actions[i].id})
         /\ Len(result[1].warnings) = Cardinality(FailedAdds)
         /\ \A k \in DOMAIN added : added[k].ref = ordered[k]
         /\ (pc = "browser-done" /\ ordered # << >>) => Len(added) = Len(ordered)
    /\ (IsApiBuild /\ pc \notin {"api-connect", "api-metrics", "api-trigger",
                                "api-templates"} /\ resolved # None) =>
         /\ Len(result[1].warnings) = Cardinality(TemplateFailures)
         /\ \A i \in TemplateFailures :
              WarningsOn(definition.actions[i].name) # {}
         /\ (pc = "api-done" /\ ~CompileThrew) => outcome # None

AuthFailureAt(k) ==
    /\ invocations[k].kind = "rejected"
    /\ \/ Includes(AsError(invocations[k].thrown).message, <<"4", "0", "1">>)
       \/ Includes(AsError(invocations[k].thrown).message, <<"4", "0", "3">>)

(***************************************************************************)
(* C25: in the API build, a create-flow request that fails with a 401/403  *)
(* error is the last one: no delay is slept after it and no further        *)
(* request follows.                                                        *)
(***************************************************************************)
C25_AsStated ==
    IsApiBuild =>
      \A k \in DOMAIN invocations :
        AuthFailureAt(k) => (k = Len(invocations) /\ pc # "retry-sleep")

(***************************************************************************)
(* C26: with maxAttempts >= 1, withRetry stops at the first success: the   *)
(* attempt that succeeds is the last invocation, every one before it       *)
(* failed, its result is returned and one delay was slept per failure; the *)
(* operation is never invoked more than maxAttempts times, and a call that *)
(* is over invoked it at least once and either returned the result of an   *)
(* invocation or threw the error of one (a thrown value that is no Error   *)
(* as the Error made of it).                                               *)
(***************************************************************************)
C26_StopsAtFirstSuccess ==
    opts.maxAttempts >= 1 =>
      /\ Len(invocations) <= opts.maxAttempts
      /\ \A k \in DOMAIN invocations :
           invocations[k].kind = "resolved" =>
             /\ k = Len(invocations)
             /\ \A j \in 1..(k - 1) : invocations[j].kind = "rejected"
             /\ pc = "retry-done"
             /\ outcome = Some([kind |-> "returned", value |-> invocations[k].value])
             /\ Len(slept) = k - 1
      /\ pc = "retry-done" =>
           /\ Len(invocations) >= 1
           /\ outcome # None
           /\ \/ /\ outcome[1].kind = "returned"
                 /\ invocations[Len(invocations)].kind = "resolved"
              \/ /\ outcome[1].kind = "threw"
                 /\ \E j \in DOMAIN invocations :
                      /\ invocations[j].kind = "rejected"
                      /\ outcome[1].error = Some(AsError(invocations[j].thrown))

\* Three attempts allowed: two failures, then the success that is returned.
C26_Witness ==
    /\ pc = "retry-done"
    /\ opts.maxAttempts = 3
    /\ Len(invocations) = 3
    /\ invocations[1].kind = "rejected"
    /\ invocations[2].kind = "rejected"
    /\ invocations[3].kind = "resolved"
    /\ Len(slept) = 2
    /\ outcome = Some([kind |-> "returned", value |-> invocations[3].value])

(***************************************************************************)
(* C27: APIFlowCreator.buildFlow always comes to its return (every throw   *)
(* inside it ends in its catch block), and the BuildResult it returns has  *)
(* either success=true, the create-flow call returned, flowId set, no      *)
(* errors and actionsCreated the number of actions of the definition, or   *)
(* success=false, at least one error, no flowId and actionsCreated 0.      *)
(***************************************************************************)
C27_ResultShape ==
    /\ pc # "api-done" => ENABLED NextApiBuild
    /\ pc = "api-done" =>
         IF result[1].success
         THEN /\ outcome # None
              /\ outcome[1].kind = "returned"
              /\ invocations[Len(invocations)].kind = "resolved"
              /\ result[1].flowId = Some(invocations[Len(invocations)].value)
              /\ result[1].errors = << >>
              /\ result[1].actionsCreated = Len(definition.actions)
         ELSE /\ Len(result[1].errors) >= 1
              /\ result[1].flowId = None
              /\ result[1].actionsCreated = 0

\* A build of two actions whose create-flow call succeeded on its second
\* attempt, with a template that could not be created.
C27_Witness ==
    /\ pc = "api-done"
    /\ result[1].success
    /\ result[1].flowId # None
    /\ result[1].actionsCreated = 2
    /\ Len(result[1].warnings) = 1
    /\ Len(invocations) = 2

(***************************************************************************)
(* C28: in the browser build the actions of the traversal sequence are     *)
(* attempted in its order, each once; actionsCreated never exceeds their   *)
(* number; after the loop actionsCreated plus the per-action warnings is   *)
(* their number; and the result of a build that is over has success=true   *)
(* exactly when some action was added without error, which needs that no   *)
(* step before the loop threw.                                             *)
(***************************************************************************)
C28_LoopAccounting ==
    IsBrowserBuild =>
      /\ Len(added) <= Len(ordered)
      /\ \A k \in DOMAIN added : added[k].ref = ordered[k]
      /\ result[1].actionsCreated = Cardinality({k \in DOMAIN added : added[k].ok})
      /\ result[1].actionsCreated <= Len(ordered)
      /\ pc = "browser-done" =>
           /\ result[1].errors = << >> =>
                /\ Len(added) = Len(ordered)
                /\ result[1].actionsCreated + Len(result[1].warnings) = Len(ordered)
           /\ result[1].success <=>
                (/\ \E k \in DOMAIN added : added[k].ok
                 /\ result[1].errors = << >>)
           /\ result[1].errors # << >> => added = << >>

\* Two actions, the first of which could not be added: the build succeeded.
C28_Witness ==
    /\ pc = "browser-done"
    /\ Len(ordered) = 2
    /\ [k \in DOMAIN added |-> added[k].ok] = <<FALSE, TRUE>>
    /\ result[1].actionsCreated = 1
    /\ Len(result[1].warnings) = 1
    /\ result[1].success

IsPrefix(s, t) == Len(s) <= Len(t) /\ SubSeq(t, 1, Len(s)) = s

(***************************************************************************)
(* C29: in the CLI, the step after phase 1 touches the result or calls the *)
(* configurator only when phase 1 returned success=true with a flowId and  *)
(* the definition has settings.reentry; and whatever it does (credentials  *)
(* missing, configurator errors, re-entry not set, a throw), success,      *)
(* flowId and errors of the result stay as phase 1 left them, and warnings *)
(* and screenshots are only appended to.                                   *)
(***************************************************************************)
C29_Phase2OnlyAppends ==
    [][(pc = "entry-phase2" /\ entry = Some("cli")) =>
         /\ result' # None
         /\ result'[1].success = result[1].success
         /\ result'[1].flowId = result[1].flowId
         /\ result'[1].errors = result[1].errors
         /\ IsPrefix(result[1].warnings, result'[1].warnings)
         /\ IsPrefix(result[1].screenshots, result'[1].screenshots)
         /\ (result' # result \/ backends' # backends) =>
              /\ result[1].success
              /\ result[1].flowId
              /\ needsReentry(definition)
         /\ completion' = Some([success |-> result[1].success])]_vars

\* A CLI build whose configurator call threw: the build is still a success,
\* and the throw is a warning.
C29_Witness ==
    /\ pc = "entry-done"
    /\ entry = Some("cli")
    /\ \E k \in DOMAIN backends :
         backends[k] = [backend |-> "configurator", success |-> FALSE]
    /\ result # None
    /\ result[1].success
    /\ result[1].flowId
    /\ result[1].errors = << >>
    /\ \E k \in DOMAIN result[1].warnings :
         result[1].warnings[k] = "Phase 2 failed. Set re-entry manually."
    /\ completion = Some([success |-> TRUE])

(***************************************************************************)
(* C30: in the web server every event on the SSE stream of a build comes   *)
(* from that build (no log line of build A is written to the stream of     *)
(* build B), and once every build is over, on whatever path it ended, no   *)
(* per-build transport is still added to the shared logger.                *)
(***************************************************************************)
C30_AsStated ==
    /\ \A b \in Builds : \A k \in DOMAIN streams[b] : streams[b][k].of = b
    /\ (\A b \in Builds : web[b].stage = "done") => attached = {}

====
